---- MODULE Spec2Model ----
(***************************************************************************)
(* A model of the matrix network filesystem: the server dispatcher         *)
(* (matrix/server/startup.py) with its operation catalogue and backend     *)
(* functions (matrix/common/func.py), the Windows-NT passthrough backend   *)
(* with its open-file registry (src/matrix/common/passthrough/nt.py), the  *)
(* rename and link of the Unix passthrough backend                         *)
(* (src/matrix/common/passthrough/unix.py), the Windows HTTP server        *)
(* (matrix/server/win/server.py) and the client adapter                    *)
(* (src/matrix/client/fs.py), over a small model of the operating system's *)
(* files, timestamps and descriptors; and the in-memory filesystem of the  *)
(* Windows tests (src/win_tests/fs/in_memory.py) with its file objects     *)
(* (src/win_tests/obj/file.py) and its operation decorator                 *)
(* (src/win_tests/operation.py).                                           *)
(***************************************************************************)
EXTENDS Integers, Sequences, FiniteSets, TLC

VARIABLES
    backend,     \* which deployment runs: "nt" (WindowsNTPassthrough), "func" (the HTTP server) or "win" (the Windows HTTP server)
    names,       \* the volume's directory: resolved path -> what it names (a file's inode, a directory, a link)
    data,        \* inode number -> file content, a sequence of bytes
    fds,         \* the process's descriptor table: descriptor -> [ino, flags], ino 0 when closed
    open_files,  \* NtOpenFileManager.open_files: handle id -> [path, flags]
    last,        \* the last backend call of the mount and what it returned or raised
    req,         \* the last request the HTTP server handled and the backend calls it made
    resp,        \* the answer to it: HTTP status and envelope
    cli,         \* the last capability call of the client adapter: HTTP calls sent, exception raised
    threads,     \* the calls in progress on the mount's threads: thread -> [pc, fh, path, flags, offset, buf]
    read_only,   \* InMemoryFileSystemOperations.read_only
    entries,     \* InMemoryFileSystemOperations._entries: path -> the object stored under it (0: no entry)
    objs,        \* the FileObj and FolderObj objects made so far: object -> its fields
    thread_lock, \* InMemoryFileSystemOperations._thread_lock: the caller holding it, 0 when free
    callers,     \* the in-memory operations in progress: caller -> [pc, raises]
    result,      \* the last in-memory operation and what it returned or raised
    written      \* the bytes a file object should hold: what was written, zeros elsewhere

memvars == <<read_only, entries, objs, thread_lock, callers, result, written>>

vars == <<backend, names, data, fds, open_files, last, req, resp, cli, threads, memvars>>

\* no in-memory filesystem has been constructed
NoMem ==
    /\ read_only = FALSE
    /\ entries = <<>>
    /\ objs = <<>>
    /\ thread_lock = 0
    /\ callers = <<>>
    /\ result = <<>>
    /\ written = <<>>

-----------------------------------------------------------------------------
(* Bounds of the model *)

MaxLen == 2     \* the volume's file-size limit, in bytes
MaxFd == 2
ServerMaxFd == 1      \* descriptors the process may hold open at once
MaxIno == 1     \* inodes of the volume

Bytes == {0, 1}
Contents == UNION {[1..n -> Bytes] : n \in 0..MaxLen}
Offsets == 0..MaxLen
Sizes == 0..MaxLen
FdNums == 1..MaxFd
FhInputs == 0..MaxFd         \* 0 is an id no open ever returns
ServerFdNums == 1..ServerMaxFd
ServerFhInputs == 0..ServerMaxFd
Inodes == 1..MaxIno

ROOT == "/srv"

\* Client-supplied virtual paths: a file of the root, a path with a
\* parent-directory segment, and a path that still begins with a slash after
\* one leading slash is stripped.
VPaths == {"/a", "/../x", "//x"}

\* The resolved paths of the volume under ROOT that may hold a file. What lies
\* outside ROOT is empty and closed to the process (ENOENT, EACCES).
Nodes == {"/srv/a"}

-----------------------------------------------------------------------------
(* Strings and paths *)

Min(a, b) == IF a < b THEN a ELSE b

StartsWith(s, p) == Len(s) >= Len(p) /\ SubSeq(s, 1, Len(p)) = p

EndsWith(s, p) == Len(s) >= Len(p) /\ SubSeq(s, Len(s) - Len(p) + 1, Len(s)) = p

\* os.path.join(a, b): an absolute b discards a.
os_path_join(a, b) ==
    IF StartsWith(b, "/") THEN b
    ELSE IF a = "" \/ EndsWith(a, "/") THEN a \o b
    ELSE a \o "/" \o b

\* The components of a path string, in order ("/" separates, empty ones dropped).
RECURSIVE SplitPath(_, _, _)
SplitPath(s, cur, acc) ==
    IF s = "" THEN (IF cur = "" THEN acc ELSE Append(acc, cur))
    ELSE IF Head(s) = "/"
         THEN SplitPath(Tail(s), "", IF cur = "" THEN acc ELSE Append(acc, cur))
         ELSE SplitPath(Tail(s), cur \o SubSeq(s, 1, 1), acc)

\* The operating system's resolution of "." and ".." components.
RECURSIVE Collapse(_, _)
Collapse(comps, acc) ==
    IF comps = <<>> THEN acc
    ELSE IF Head(comps) = "." THEN Collapse(Tail(comps), acc)
    ELSE IF Head(comps) = ".."
         THEN Collapse(Tail(comps), IF acc = <<>> THEN acc ELSE SubSeq(acc, 1, Len(acc) - 1))
         ELSE Collapse(Tail(comps), Append(acc, Head(comps)))

RECURSIVE JoinComps(_)
JoinComps(comps) ==
    IF comps = <<>> THEN "" ELSE "/" \o Head(comps) \o JoinComps(Tail(comps))

\* The object an absolute path string names once the operating system has
\* resolved it: "/srv/../x" names "/x".
JoinRoot(comps) == IF comps = <<>> THEN "/" ELSE JoinComps(comps)

Resolve(p) == JoinRoot(Collapse(SplitPath(p, "", <<>>), <<>>))

InsideRoot(p) == Resolve(p) = ROOT \/ StartsWith(Resolve(p), ROOT \o "/")

-----------------------------------------------------------------------------
(* The operating system: the volume's names, files and descriptors, and the *)
(* calls made on them. A state st is [names, data, fds]; every call returns *)
(* [err, ret, st] with err the errno name of the OSError it raises, ""      *)
(* when it returns. posix tells the POSIX rules from the Windows ones.      *)

\* A time is a count of milliseconds since the epoch; Python holds it as
\* seconds, in a float or an int. The clock stands at 0: what is made, or
\* touched without times, has the times 0. (Times are kept with the name; no
\* specification that sets them makes hard links.)
Absent == [kind |-> "none", ino |-> 0, target |-> "", atime |-> 0, mtime |-> 0]
FileNode(i) == [kind |-> "file", ino |-> i, target |-> "", atime |-> 0, mtime |-> 0]
DirNode == [kind |-> "dir", ino |-> 0, target |-> "", atime |-> 0, mtime |-> 0]
LinkNode(t) == [kind |-> "link", ino |-> 0, target |-> t, atime |-> 0, mtime |-> 0]

\* pos is the file position of the open file description
NoFd == [ino |-> 0, flags |-> {}, pos |-> 0]
DirIno == MaxIno + 1     \* what a descriptor opened on a directory refers to
NoneFh == 0 - 1          \* Python's None, for an optional fh
Faults == {"", "EIO"}    \* "": the device works; "EIO": the call's device access fails

Cur == [names |-> names, data |-> data, fds |-> fds]

Lowest(S) == CHOOSE x \in S : \A y \in S : x <= y

IsOpenFd(st, fd) == fd \in DOMAIN st.fds /\ st.fds[fd].ino # 0
FreeFds(st) == {f \in DOMAIN st.fds : st.fds[f].ino = 0}
InUse(st, i) ==
    \/ \E n \in DOMAIN st.names : st.names[n].kind = "file" /\ st.names[n].ino = i
    \/ \E f \in DOMAIN st.fds : st.fds[f].ino = i
FreeInos(st) == {i \in Inodes : ~InUse(st, i)}
HeldOpen(st, i) == \E f \in DOMAIN st.fds : st.fds[f].ino = i

\* An inode nothing refers to any more holds no content.
Reclaim(st) == [st EXCEPT !.data = [i \in Inodes |-> IF InUse(st, i) THEN st.data[i] ELSE <<>>]]

Writable(flags) == "O_WRONLY" \in flags \/ "O_RDWR" \in flags
Readable(flags) == "O_WRONLY" \notin flags

Raise(e, st) == [err |-> e, ret |-> 0, st |-> st]
Return(v, st) == [err |-> "", ret |-> v, st |-> st]

\* What a path string names, without following a symbolic link at its end:
\* [err, node, kind]. The root directory and "/" are directories; every other
\* path outside the volume's names names nothing, and neither does a path
\* whose parent is not a directory.
Parent(node) ==
    LET comps == SplitPath(node, "", <<>>) IN JoinRoot(SubSeq(comps, 1, Len(comps) - 1))

Under(node, dir) == node = dir \/ StartsWith(node, dir \o "/")

HasChild(st, dir) == \E m \in DOMAIN st.names : st.names[m].kind # "none" /\ Parent(m) = dir

ParentError(st, parent) ==
    IF parent \in {"/", ROOT} THEN ""
    ELSE IF parent \notin DOMAIN st.names \/ st.names[parent].kind = "none" THEN "ENOENT"
    ELSE IF st.names[parent].kind # "dir" THEN "ENOTDIR"
    ELSE ""

LookupNode(st, node) ==
    IF node \in {"/", ROOT} THEN [err |-> "", node |-> node, kind |-> "dir"]
    ELSE IF node \notin DOMAIN st.names THEN [err |-> "ENOENT", node |-> node, kind |-> "none"]
    ELSE IF st.names[node].kind = "none"
      THEN [err |-> ParentError(st, Parent(node)), node |-> node, kind |-> "none"]
    ELSE [err |-> "", node |-> node, kind |-> st.names[node].kind]

Lookup(st, path) == LookupNode(st, Resolve(path))

\* The same, following symbolic links (a link to itself, or a chain longer
\* than the volume has names, is ELOOP).
RECURSIVE Follow(_, _, _)
FollowLink(st, l, fuel) ==
    IF l.err # "" \/ l.kind # "link" THEN l
    ELSE IF fuel = 0 THEN [err |-> "ELOOP", node |-> l.node, kind |-> "none"]
    ELSE Follow(st, st.names[l.node].target, fuel - 1)

Follow(st, path, fuel) == FollowLink(st, Lookup(st, path), fuel)

Walk(st, path) == Follow(st, path, Cardinality(DOMAIN st.names))

Exists(l) == l.err = "" /\ l.kind # "none"

Zeros(n) == [i \in 1..n |-> 0]

\* content with bytes b placed at position pos (holes read as zero)
Splice(content, pos, b) ==
    LET padded == IF Len(content) < pos THEN content \o Zeros(pos - Len(content)) ELSE content
    IN SubSeq(padded, 1, pos) \o b \o SubSeq(padded, pos + Len(b) + 1, Len(padded))

\* content left as it is, whatever the length asked for
ResizeNothing(content, n) == content

\* content cut or zero-extended to length n
Resize(content, n) ==
    IF Len(content) >= n THEN SubSeq(content, 1, n) ELSE content \o Zeros(n - Len(content))

\* os.open(path, flags): the lowest free descriptor, on the file the path
\* names. direct is what the path names itself, l what it leads to.
Opened(st, fd, i, flags) ==
    [st EXCEPT !.fds[fd] = [ino |-> i, flags |-> flags \ {"O_CREAT", "O_EXCL", "O_TRUNC"}, pos |-> 0]]

OsOpenAt(st, flags, posix, fault, direct, l) ==
    IF {"O_CREAT", "O_EXCL"} \subseteq flags /\ Exists(direct) THEN Raise("EEXIST", st)
    ELSE IF l.err # ""
      THEN Raise(IF l.err = "ENOENT" /\ "O_CREAT" \in flags /\ l.node \notin DOMAIN st.names
                   THEN "EACCES" ELSE l.err, st)
    ELSE IF l.kind = "dir" /\ Writable(flags) THEN Raise("EISDIR", st)
    ELSE IF l.kind = "dir" /\ ~posix THEN Raise("EACCES", st)
    ELSE IF l.kind = "none" /\ "O_CREAT" \notin flags THEN Raise("ENOENT", st)
    ELSE IF fault # "" THEN Raise(fault, st)
    ELSE IF FreeFds(st) = {} THEN Raise("EMFILE", st)
    ELSE IF l.kind = "dir" THEN Return(Lowest(FreeFds(st)), Opened(st, Lowest(FreeFds(st)), DirIno, flags))
    ELSE IF l.kind = "none"
      THEN IF FreeInos(st) = {} THEN Raise("ENOSPC", st)
           ELSE Return(Lowest(FreeFds(st)),
                       Opened([st EXCEPT !.names[l.node] = FileNode(Lowest(FreeInos(st))),
                                         !.data[Lowest(FreeInos(st))] = <<>>],
                              Lowest(FreeFds(st)), Lowest(FreeInos(st)), flags))
    ELSE Return(Lowest(FreeFds(st)),
                Opened(IF "O_TRUNC" \in flags /\ Writable(flags)
                         THEN [st EXCEPT !.data[st.names[l.node].ino] = <<>>] ELSE st,
                       Lowest(FreeFds(st)), st.names[l.node].ino, flags))

OsOpen(st, path, flags, posix, fault) ==
    OsOpenAt(st, flags, posix, fault, Lookup(st, path), Walk(st, path))

\* os.close(fd)
OsClose(st, fd, fault) ==
    IF ~IsOpenFd(st, fd) THEN Raise("EBADF", st)
    ELSE IF fault # "" THEN Raise(fault, st)
    ELSE Return(0, Reclaim([st EXCEPT !.fds[fd] = NoFd]))

\* os.lseek(fd, offset, SEEK_SET) on an open descriptor: the position is set
OsLseek(st, fd, offset) == [st EXCEPT !.fds[fd].pos = offset]

\* os.read(fd, size) on an open file: the bytes from the position on, and the
\* position moves past them
OsReadAt(st, fd, size, d, p) ==
    Return(SubSeq(d, p + 1, Min(p + size, Len(d))),
           [st EXCEPT !.fds[fd].pos = IF p < Len(d) THEN Min(p + size, Len(d)) ELSE p])

OsRead(st, fd, size) == OsReadAt(st, fd, size, st.data[st.fds[fd].ino], st.fds[fd].pos)

\* os.write(fd, b) on an open file: b goes to the position (to the end of the
\* file for an O_APPEND descriptor), and the position moves past it
OsWriteAt(st, fd, b, i, p) ==
    IF Len(b) = 0 THEN Return(0, st)
    ELSE IF Min(Len(b), MaxLen - p) <= 0 THEN Raise("EFBIG", st)
    ELSE Return(Min(Len(b), MaxLen - p),
                [st EXCEPT !.data[i] = Splice(st.data[i], p, SubSeq(b, 1, Min(Len(b), MaxLen - p))),
                           !.fds[fd].pos = p + Min(Len(b), MaxLen - p)])

OsWrite(st, fd, b) ==
    OsWriteAt(st, fd, b, st.fds[fd].ino,
              IF "O_APPEND" \in st.fds[fd].flags THEN Len(st.data[st.fds[fd].ino]) ELSE st.fds[fd].pos)

\* The position a finished seek-and-transfer pair leaves is read by no later
\* call (each transfer seeks first): a pair that runs as one step leaves 0.
Settled(r, fd) == [r EXCEPT !.st.fds[fd].pos = 0]

\* os.lseek(fd, offset, SEEK_SET) then os.read(fd, size)
OsSeekRead(st, fd, size, offset, fault) ==
    IF ~IsOpenFd(st, fd) THEN Raise("EBADF", st)
    ELSE IF ~Readable(st.fds[fd].flags) THEN Raise("EBADF", st)
    ELSE IF st.fds[fd].ino = DirIno THEN Raise("EISDIR", st)
    ELSE IF fault # "" THEN Raise(fault, st)
    ELSE Settled(OsRead(OsLseek(st, fd, offset), fd, size), fd)

\* os.lseek(fd, offset, SEEK_SET) then os.write(fd, b): an O_APPEND descriptor
\* writes at the end of the file whatever the seek; a write that crosses the
\* file-size limit is cut short, one that starts at it fails.
OsSeekWrite(st, fd, b, offset, fault) ==
    IF ~IsOpenFd(st, fd) THEN Raise("EBADF", st)
    ELSE IF ~Writable(st.fds[fd].flags) THEN Raise("EBADF", st)
    ELSE IF fault # "" THEN Raise(fault, st)
    ELSE Settled(OsWrite(OsLseek(st, fd, offset), fd, b), fd)

\* os.fsync(fd), os.fdatasync(fd)
OsFsync(st, fd, fault) ==
    IF ~IsOpenFd(st, fd) THEN Raise("EBADF", st)
    ELSE IF fault # "" THEN Raise(fault, st)
    ELSE Return(0, st)

\* os.ftruncate(fd, length)
OsFtruncate(st, fd, length, fault) ==
    IF ~IsOpenFd(st, fd) THEN Raise("EBADF", st)
    ELSE IF ~Writable(st.fds[fd].flags) THEN Raise("EINVAL", st)
    ELSE IF fault # "" THEN Raise(fault, st)
    ELSE Return(0, [st EXCEPT !.data[st.fds[fd].ino] = Resize(@, length)])

\* with open(path, 'r+') as f: f.truncate(length) -- a descriptor of its own,
\* opened read-write on an existing file and closed again.
TruncateOpened(st, length, o) ==
    IF o.err # "" THEN Raise(o.err, st)
    ELSE Return(0, OsClose(OsFtruncate(o.st, o.ret, length, "").st, o.ret, "").st)

OpenTruncate(st, path, length, posix, fault) ==
    TruncateOpened(st, length, OsOpen(st, path, {"O_RDWR"}, posix, fault))

\* os.unlink(path). POSIX: the name goes, the inode lives on while descriptors
\* hold it. Windows: a file with an open descriptor cannot be unlinked.
OsUnlinkAt(st, posix, fault, l) ==
    IF l.err # "" \/ l.kind = "none" THEN Raise("ENOENT", st)
    ELSE IF l.kind = "dir" THEN Raise(IF posix THEN "EPERM" ELSE "EACCES", st)
    ELSE IF ~posix /\ l.kind = "file" /\ HeldOpen(st, st.names[l.node].ino) THEN Raise("EACCES", st)
    ELSE IF fault # "" THEN Raise(fault, st)
    ELSE Return(0, Reclaim([st EXCEPT !.names[l.node] = Absent]))

OsUnlink(st, path, posix, fault) == OsUnlinkAt(st, posix, fault, Lookup(st, path))

\* os.rename(old, new). POSIX: a file at new is replaced. Windows: an existing
\* new is an error, and so is an old with an open descriptor on it or on a
\* file below it. A directory
\* moves with everything under it; the volume holds no name deeper than its
\* names reach.
Image(m, o, n) == n \o SubSeq(m, Len(o) + 1, Len(m))

\* a descriptor is open on the file at node o or on a file below it
HeldUnder(st, o) ==
    \E m \in DOMAIN st.names :
        Under(m, o) /\ st.names[m].kind = "file" /\ HeldOpen(st, st.names[m].ino)

Carried(st, o, n) ==
    \A m \in DOMAIN st.names :
        (Under(m, o) /\ st.names[m].kind # "none") => Image(m, o, n) \in DOMAIN st.names

Moved(st, o, n) ==
    [m \in DOMAIN st.names |->
        IF Under(m, n)
          THEN IF Image(m, n, o) \in DOMAIN st.names THEN st.names[Image(m, n, o)] ELSE Absent
        ELSE IF Under(m, o) THEN Absent
        ELSE st.names[m]]

OsRenameAt(st, posix, fault, o, n) ==
    IF o.err # "" \/ o.kind = "none" THEN Raise("ENOENT", st)
    ELSE IF o.node \notin DOMAIN st.names \/ n.node \notin DOMAIN st.names THEN Raise("EACCES", st)
    ELSE IF n.err # "" THEN Raise(n.err, st)
    ELSE IF o.node # n.node /\ Under(n.node, o.node) THEN Raise("EINVAL", st)
    ELSE IF ~posix /\ o.node # n.node /\ n.kind # "none" THEN Raise("EEXIST", st)
    ELSE IF ~posix /\ HeldUnder(st, o.node) THEN Raise("EACCES", st)
    ELSE IF o.node # n.node /\ o.kind = "dir" /\ n.kind \notin {"none", "dir"} THEN Raise("ENOTDIR", st)
    ELSE IF o.node # n.node /\ o.kind # "dir" /\ n.kind = "dir" THEN Raise("EISDIR", st)
    ELSE IF o.node # n.node /\ n.kind = "dir" /\ HasChild(st, n.node) THEN Raise("ENOTEMPTY", st)
    ELSE IF ~Carried(st, o.node, n.node) THEN Raise("ENAMETOOLONG", st)
    ELSE IF fault # "" THEN Raise(fault, st)
    ELSE IF o.node = n.node THEN Return(0, st)
    ELSE Return(0, Reclaim([st EXCEPT !.names = Moved(st, o.node, n.node)]))

OsRename(st, old, new, posix, fault) ==
    OsRenameAt(st, posix, fault, Lookup(st, old), Lookup(st, new))

-----------------------------------------------------------------------------
(* The Windows-NT backend: NtOpenFileManager and WindowsNTPassthrough.      *)
(* Every method returns [err, ret, sys, st, reg]: the errno name of the     *)
(* exception it raises ("" when it returns), its return value, the set of   *)
(* descriptor calls it made, and the operating-system state and registry    *)
(* it leaves.                                                               *)

None == "None"

reserved_names == {"CON", "PRN", "AUX", "NUL", "COM1", "COM2", "COM3", "COM4",
                   "COM5", "COM6", "COM7", "COM8", "COM9", "LPT1", "LPT2",
                   "LPT3", "LPT4", "LPT5", "LPT6", "LPT7", "LPT8", "LPT9"}

UpperChar(c) ==
    CASE c = "a" -> "A" [] c = "b" -> "B" [] c = "c" -> "C" [] c = "l" -> "L"
      [] c = "n" -> "N" [] c = "o" -> "O" [] c = "s" -> "S" [] c = "t" -> "T"
      [] c = "u" -> "U" [] c = "v" -> "V" [] c = "x" -> "X" [] OTHER -> c

RECURSIVE Upper(_)
Upper(s) == IF s = "" THEN "" ELSE UpperChar(SubSeq(s, 1, 1)) \o Upper(Tail(s))

\* os.path.basename(path): what follows the last separator
RECURSIVE Basename(_)
Basename(p) ==
    IF \E i \in 1..Len(p) : SubSeq(p, i, i) = "/" THEN Basename(Tail(p)) ELSE p

NtFullPath(partial) ==
    os_path_join(ROOT, IF StartsWith(partial, "/") THEN Tail(partial) ELSE partial)

\* a check that takes no name for a reserved one
IsReservedName_never(path) == FALSE

\* _check_reserved_name raises FuseOSError(EINVAL)
IsReservedName(path) ==
    LET name == Upper(Basename(path))
    IN name \in reserved_names \/ \E rn \in reserved_names : StartsWith(name, rn \o ".")

\* a registry that forgets what it is given
add_nothing(reg, path, fh, flags) == reg

\* a registry that keeps the path of a handle and drops its flags
add_without_flags(reg, path, fh, flags) ==
    [h \in DOMAIN reg \cup {fh} |-> IF h = fh THEN [path |-> path, flags |-> {}] ELSE reg[h]]

add(reg, path, fh, flags) ==
    [h \in DOMAIN reg \cup {fh} |-> IF h = fh THEN [path |-> path, flags |-> flags] ELSE reg[h]]

\* NtOpenFileManager.get: known is FALSE for the None it returns on an unknown id
get(reg, fh) ==
    IF fh \notin DOMAIN reg THEN [known |-> FALSE, path |-> "", flags |-> {}]
    ELSE [known |-> TRUE, path |-> reg[fh].path, flags |-> reg[fh].flags]

\* a registry that takes every id for an open handle
is_open_any(reg, fh) == TRUE

is_open(reg, fh) == fh \in DOMAIN reg

Out(err, ret, sys, st, reg) == [err |-> err, ret |-> ret, sys |-> sys, st |-> st, reg |-> reg]

\* a registry that is emptied when one id is removed
RemovedAll(st, reg, fh, c) ==
    IF c.err = "" THEN Out("", None, {"close"}, c.st, <<>>)
    ELSE Out(c.err, None, {"close"}, st, reg)

\* NtOpenFileManager.remove: c is the outcome of os.close(fh)
Removed(st, reg, fh, c) ==
    IF c.err = "" THEN Out("", None, {"close"}, c.st, [h \in DOMAIN reg \ {fh} |-> reg[h]])
    ELSE Out(c.err, None, {"close"}, st, reg)

\* a registry that forgets the id and leaves its descriptor open
remove_entry_only(st, reg, fh, fault) ==
    Out("", None, {}, st, [h \in DOMAIN reg \ {fh} |-> reg[h]])

remove(st, reg, fh, fault) ==
    IF fh \in DOMAIN reg THEN Removed(st, reg, fh, OsClose(st, fh, fault))
    ELSE Out("", None, {}, st, reg)

\* the descriptor o that os.open returned is registered, or its error raised
Registered(st, reg, full, flags, o) ==
    IF o.err = "" THEN Out("", o.ret, {"open"}, o.st, add(reg, full, o.ret, flags))
    ELSE Out(o.err, None, {"open"}, st, reg)

\* A fault names the call that fails: EIO the device access of the system
\* call, AclFault the security calls of _set_file_permissions.
AclFault == "ACL"
DeviceFault(fault) == IF fault = AclFault THEN "" ELSE fault

\* permissions whose failure is raised to the caller
SetPermissionsRaising(fault) ==
    IF fault = AclFault THEN [err |-> "EACCES", sys |-> {"GetFileSecurity"}]
    ELSE [err |-> "", sys |-> {"GetFileSecurity", "SetFileSecurity"}]

\* _set_file_permissions(path): [err, sys]. Whatever its calls raise is
\* logged and not raised again.
SetPermissions(fault) ==
    IF fault = AclFault THEN [err |-> "", sys |-> {"GetFileSecurity"}]
    ELSE [err |-> "", sys |-> {"GetFileSecurity", "SetFileSecurity"}]

\* the rest of a method after _set_file_permissions with outcome p: r when
\* it returned, and when it raised the error, with the system state st and
\* registry reg as they were left before it
Permitted(p, r, st, reg) ==
    IF p.err # "" THEN Out(p.err, None, r.sys \cup p.sys, st, reg)
    ELSE Out(r.err, r.ret, r.sys \cup p.sys, r.st, r.reg)

\* a create that empties the file it finds
CreatedTruncating(st, reg, full, o, fault) ==
    IF o.err = "EEXIST"
      THEN Registered(st, reg, full, {"O_WRONLY"}, OsOpen(st, full, {"O_WRONLY", "O_TRUNC"}, FALSE, ""))
    ELSE IF o.err # "" THEN Registered(st, reg, full, {"O_WRONLY", "O_CREAT"}, o)
    ELSE Permitted(SetPermissions(fault), Registered(st, reg, full, {"O_WRONLY", "O_CREAT"}, o),
                   o.st, reg)

Created(st, reg, full, o, fault) ==
    IF o.err = "EEXIST"
      THEN Registered(st, reg, full, {"O_WRONLY"}, OsOpen(st, full, {"O_WRONLY"}, FALSE, ""))
    ELSE IF o.err # "" THEN Registered(st, reg, full, {"O_WRONLY", "O_CREAT"}, o)
    ELSE Permitted(SetPermissions(fault), Registered(st, reg, full, {"O_WRONLY", "O_CREAT"}, o),
                   o.st, reg)

CreateAt(st, reg, full, fault) ==
    IF IsReservedName(full) THEN Out("EINVAL", None, {}, st, reg)
    ELSE Created(st, reg, full,
                 OsOpen(st, full, {"O_WRONLY", "O_CREAT", "O_EXCL"}, FALSE, DeviceFault(fault)), fault)

NtCreate(st, reg, path, fault) == CreateAt(st, reg, NtFullPath(path), fault)

OpenAt(st, reg, full, flags, fault) ==
    Registered(st, reg, full, flags, OsOpen(st, full, flags, FALSE, fault))

NtOpen(st, reg, path, flags, fault) == OpenAt(st, reg, NtFullPath(path), flags, fault)

\* what a method returns or raises after the system call with outcome r
Transferred(reg, sys, r) == Out(r.err, IF r.err = "" THEN r.ret ELSE None, sys, r.st, reg)

Done(reg, sys, r) == Out(r.err, None, sys, r.st, reg)

NtRead(st, reg, size, offset, fh, fault) ==
    IF ~is_open(reg, fh) THEN Out("EBADF", None, {}, st, reg)
    ELSE Transferred(reg, {"lseek", "read"}, OsSeekRead(st, fh, size, offset, fault))

NtWrite(st, reg, buf, offset, fh, fault) ==
    IF ~is_open(reg, fh) THEN Out("EBADF", None, {}, st, reg)
    ELSE Transferred(reg, {"lseek", "write"}, OsSeekWrite(st, fh, buf, offset, fault))

NtTruncate(st, reg, path, length, fh, fault) ==
    IF fh # NoneFh
      THEN IF ~is_open(reg, fh) THEN Out("EBADF", None, {}, st, reg)
           ELSE Done(reg, {"ftruncate"}, OsFtruncate(st, fh, length, fault))
      ELSE Done(reg, {"open"}, OpenTruncate(st, NtFullPath(path), length, FALSE, fault))

NtFlush(st, reg, fh, fault) ==
    IF ~get(reg, fh).known THEN Out("EBADF", None, {}, st, reg)
    ELSE IF get(reg, fh).flags \cap {"O_WRONLY", "O_RDWR"} # {}
      THEN Done(reg, {"fsync"}, OsFsync(st, fh, fault))
    ELSE Out("", None, {}, st, reg)

NtRelease(st, reg, fh, fault) == remove(st, reg, fh, fault)

\* os.fdatasync does not exist on Windows: the attribute lookup raises.
NtFsync(st, reg, fdatasync, fh, fault) ==
    IF ~is_open(reg, fh) THEN Out("EBADF", None, {}, st, reg)
    ELSE IF fdatasync THEN Out("AttributeError", None, {}, st, reg)
    ELSE Done(reg, {"fsync"}, OsFsync(st, fh, fault))

\* the loop of unlink and rename: remove every handle registered under path
RECURSIVE CloseHandlesOf(_, _, _, _)
Both(r, more) == Out(more.err, None, r.sys \cup more.sys, more.st, more.reg)

CloseNext(path, todo, fh, r) ==
    IF r.err # "" THEN r ELSE Both(r, CloseHandlesOf(r.st, r.reg, path, todo \ {fh}))

CloseHandlesOf(st, reg, path, todo) ==
    IF todo = {} THEN Out("", None, {}, st, reg)
    ELSE CloseNext(path, todo, Lowest(todo), remove(st, reg, Lowest(todo), ""))

\* WindowsNTPassthrough.__del__: remove every id of the registry
Teardown(st, reg) == CloseHandlesOf(st, reg, "", DOMAIN reg)

HandlesOf(reg, path) == {h \in DOMAIN reg : reg[h].path = path}

\* the system call with outcome r, made after the handles were closed (c)
After(c, r) == Out(r.err, None, c.sys, r.st, c.reg)

Unlinked(full, fault, c) ==
    IF c.err # "" THEN c ELSE After(c, OsUnlink(c.st, full, FALSE, fault))

UnlinkAt(st, reg, full, fault) ==
    Unlinked(full, fault, CloseHandlesOf(st, reg, full, HandlesOf(reg, full)))

NtUnlink(st, reg, path, fault) == UnlinkAt(st, reg, NtFullPath(path), fault)

RenamedTo(full_new, r) ==
    IF r.err # "" THEN r ELSE Permitted(SetPermissions(""), r, r.st, r.reg)

Renamed(full_old, full_new, fault, c) ==
    IF c.err # "" THEN c
    ELSE RenamedTo(full_new, After(c, OsRename(c.st, full_old, full_new, FALSE, fault)))

RenameAt(st, reg, full_old, full_new, fault) ==
    Renamed(full_old, full_new, fault, CloseHandlesOf(st, reg, full_old, HandlesOf(reg, full_old)))

NtRename(st, reg, old, new, fault) == RenameAt(st, reg, NtFullPath(old), NtFullPath(new), fault)

-----------------------------------------------------------------------------
(* The calls the mount makes on the Windows-NT backend *)

OpenFlags == {{}, {"O_RDWR"}, {"O_RDWR", "O_APPEND"}}

\* path is the path string the call hands to the operating system ("" when
\* it hands none), fh the handle id it was given (NoneFh when it takes none).
NtCall(op, path, fh, out) ==
    /\ backend = "nt"
    /\ names' = out.st.names
    /\ data' = out.st.data
    /\ fds' = out.st.fds
    /\ open_files' = out.reg
    /\ last' = [op |-> op, path |-> path, fh |-> fh,
                err |-> out.err, ret |-> out.ret, sys |-> out.sys]
    /\ UNCHANGED <<backend, memvars, req, resp, cli, threads>>

NtCreateCall ==
    \E path \in VPaths, fault \in Faults \cup {AclFault} :
        NtCall("create", NtFullPath(path), NoneFh, NtCreate(Cur, open_files, path, fault))

NtOpenCall ==
    \E path \in VPaths, flags \in OpenFlags, fault \in Faults :
        NtCall("open", NtFullPath(path), NoneFh, NtOpen(Cur, open_files, path, flags, fault))

NtReadCall ==
    \E size \in Sizes, offset \in Offsets, fh \in FhInputs :
        NtCall("read", "", fh, NtRead(Cur, open_files, size, offset, fh, ""))

NtWriteCall ==
    \E buf \in Contents, offset \in Offsets, fh \in FhInputs :
        NtCall("write", "", fh, NtWrite(Cur, open_files, buf, offset, fh, ""))

NtTruncateCall ==
    \E path \in VPaths, length \in Sizes, fh \in FhInputs \cup {NoneFh} :
        NtCall("truncate", IF fh = NoneFh THEN NtFullPath(path) ELSE "", fh,
               NtTruncate(Cur, open_files, path, length, fh, ""))

NtFlushCall ==
    \E fh \in FhInputs, fault \in Faults :
        NtCall("flush", "", fh, NtFlush(Cur, open_files, fh, fault))

NtReleaseCall ==
    \E fh \in FhInputs, fault \in Faults :
        NtCall("release", "", fh, NtRelease(Cur, open_files, fh, fault))

NtFsyncCall ==
    \E fdatasync \in BOOLEAN, fh \in FhInputs, fault \in Faults :
        NtCall("fsync", "", fh, NtFsync(Cur, open_files, fdatasync, fh, fault))

NtUnlinkCall ==
    \E path \in VPaths, fault \in Faults :
        NtCall("unlink", NtFullPath(path), NoneFh, NtUnlink(Cur, open_files, path, fault))

NtRenameCall ==
    \E old \in VPaths, new \in VPaths, fault \in Faults :
        NtCall("rename", NtFullPath(old), NoneFh, NtRename(Cur, open_files, old, new, fault))

NtNext ==
    \/ NtCreateCall \/ NtOpenCall \/ NtReadCall \/ NtWriteCall \/ NtTruncateCall
    \/ NtFlushCall \/ NtReleaseCall \/ NtFsyncCall \/ NtUnlinkCall \/ NtRenameCall

-----------------------------------------------------------------------------
(* JSON and Python values on the wire and in the schemas: t is the type, *)
(* and the value is s for a str, n for an int, b for bytes and for a list   *)
(* of ints, l for a list of strs, f for an int that is a flag word (the set *)
(* of its flags).                                                           *)

Val(t, s, n, b, l, f) == [t |-> t, s |-> s, n |-> n, b |-> b, l |-> l, f |-> f]
JStr(s) == Val("str", s, 0, <<>>, <<>>, {})
JInt(n) == Val("int", "", n, <<>>, <<>>, {})
JFlags(f) == Val("int", "", 0, <<>>, <<>>, f)
JBytes(b) == Val("bytes", "", 0, b, <<>>, {})
JList(b) == Val("list", "", 0, b, <<>>, {})
JStrList(l) == Val("list", "", 0, <<>>, l, {})
JNull == Val("null", "", 0, <<>>, <<>>, {})

Range(f) == {f[i] : i \in DOMAIN f}

B64Alphabet == "ABCDEFGHIJKLMNOPQRSTUVWXYZabcdefghijklmnopqrstuvwxyz0123456789+/"

B64Table == [i \in 0..(Len(B64Alphabet) - 1) |-> SubSeq(B64Alphabet, i + 1, i + 1)]

B64Char(n) == B64Table[n]

B64Index(c) == CHOOSE i \in DOMAIN B64Table : B64Table[i] = c

IsB64Char(c) == \E i \in DOMAIN B64Table : B64Table[i] = c

\* base64.b64encode(b).decode('utf-8'): three bytes to four characters, the
\* last group padded with "="
RECURSIVE b64encode(_)
b64encode(b) ==
    IF Len(b) = 0 THEN ""
    ELSE IF Len(b) = 1
      THEN B64Char(b[1] \div 4) \o B64Char((b[1] % 4) * 16) \o "=="
    ELSE IF Len(b) = 2
      THEN B64Char(b[1] \div 4) \o B64Char((b[1] % 4) * 16 + b[2] \div 16)
           \o B64Char((b[2] % 16) * 4) \o "="
    ELSE B64Char(b[1] \div 4) \o B64Char((b[1] % 4) * 16 + b[2] \div 16)
         \o B64Char((b[2] % 16) * 4 + b[3] \div 64) \o B64Char(b[3] % 64)
         \o b64encode(SubSeq(b, 4, Len(b)))

\* base64.b64decode(s) of a string of alphabet characters and "=": [ok, v],
\* ok FALSE for the binascii.Error of a group that is not four characters
\* once padded.
RECURSIVE b64decode(_)
b64decode(s) ==
    IF Len(s) = 0 THEN [ok |-> TRUE, v |-> <<>>]
    ELSE IF Len(s) < 4 THEN [ok |-> FALSE, v |-> <<>>]
    ELSE LET c(i) == SubSeq(s, i, i)
             n(i) == B64Index(c(i))
             rest == b64decode(SubSeq(s, 5, Len(s)))
         IN IF ~IsB64Char(c(1)) \/ ~IsB64Char(c(2)) THEN [ok |-> FALSE, v |-> <<>>]
            ELSE IF c(3) = "="
              THEN IF c(4) = "=" THEN [ok |-> TRUE, v |-> <<n(1) * 4 + n(2) \div 16>>]
                   ELSE [ok |-> FALSE, v |-> <<>>]
            ELSE IF c(4) = "="
              THEN [ok |-> TRUE, v |-> <<n(1) * 4 + n(2) \div 16, (n(2) % 16) * 16 + n(3) \div 4>>]
            ELSE [ok |-> rest.ok,
                  v |-> <<n(1) * 4 + n(2) \div 16, (n(2) % 16) * 16 + n(3) \div 4,
                          (n(3) % 4) * 64 + n(4)>> \o rest.v]

-----------------------------------------------------------------------------
(* The served backend functions (matrix/common/func.py), on a POSIX host.   *)
(* Each returns [err, ret, sys, st]: the errno name of the exception it     *)
(* raises ("" when it returns), the output object it returns (None when it  *)
(* returns nothing), the descriptor calls it made, the state it leaves.     *)

Res(err, ret, sys, st) == [err |-> err, ret |-> ret, sys |-> sys, st |-> st]

\* what a function returns or raises after the system call with outcome r
Plain(sys, r) == Res(r.err, None, sys, r.st)

\* os.chmod, os.chown: modes and owners are not part of the model.
SetAttr(st, fault, l) ==
    IF l.err # "" THEN Raise(l.err, st)
    ELSE IF l.kind = "none" THEN Raise("ENOENT", st)
    ELSE IF fault # "" THEN Raise(fault, st)
    ELSE Return(0, st)

OsSetAttr(st, path, fault) == SetAttr(st, fault, Walk(st, path))

\* os.utime(path, times): times is (atime, mtime), or None for the clock's time
Touched(st, times, l, r) ==
    IF r.err # "" THEN r
    ELSE Return(0, [st EXCEPT !.names[l.node].atime = IF times = <<>> THEN 0 ELSE times[1],
                              !.names[l.node].mtime = IF times = <<>> THEN 0 ELSE times[2]])

OsUtimeAt(st, times, fault, l) == Touched(st, times, l, SetAttr(st, fault, l))

OsUtime(st, path, times, fault) == OsUtimeAt(st, times, fault, Walk(st, path))

access(st, path, mode, fault) ==
    IF Exists(Walk(st, path)) /\ fault = "" THEN Res("", None, {}, st)
    ELSE Res("EACCES", None, {}, st)

chmod(st, path, mode, fault) == Plain({}, OsSetAttr(st, path, fault))

chown(st, path, uid, gid, fault) == Plain({}, OsSetAttr(st, path, fault))

SizeOf(st, node) ==
    IF node \in DOMAIN st.names /\ st.names[node].kind = "file" THEN Len(st.data[st.names[node].ino]) ELSE 0

S_IFMT(kind) == CASE kind = "dir" -> "S_IFDIR" [] kind = "link" -> "S_IFLNK" [] OTHER -> "S_IFREG"

\* st_atime and st_mtime of os.lstat (the root and what lies outside keep 0)
TimeOf(st, node) == IF node \in DOMAIN st.names THEN st.names[node] ELSE Absent

\* os.lstat: the link itself, not what it points to
Stat(st, l) ==
    IF ~Exists(l) THEN Res("ENOENT", None, {}, st)
    ELSE Res("", [st_mode |-> JFlags({S_IFMT(l.kind)}), st_size |-> JInt(SizeOf(st, l.node)),
                  st_atime |-> JInt(TimeOf(st, l.node).atime),
                  st_mtime |-> JInt(TimeOf(st, l.node).mtime)], {}, st)

fuse_getattr(st, path, fh) == Stat(st, Lookup(st, path))

\* os.listdir of a directory: the names directly under it
RECURSIVE SetToSeq(_)
SetToSeq(S) ==
    IF S = {} THEN <<>> ELSE LET x == CHOOSE y \in S : TRUE IN <<x>> \o SetToSeq(S \ {x})

\* every name below dir, at whatever depth
ChildrenAndBelow(st, dir) ==
    {Basename(n) : n \in {m \in DOMAIN st.names :
                              st.names[m].kind # "none" /\ m # dir /\ Under(m, dir)}}

Children(st, dir) ==
    IF dir = "/" THEN {Basename(ROOT)}
    ELSE {Basename(n) : n \in {m \in DOMAIN st.names :
                                    st.names[m].kind # "none" /\ m = dir \o "/" \o Basename(m)}}

Listed(st, l) ==
    IF l.err = "" /\ l.kind = "dir"
      THEN Res("", [content |-> JStrList(<<".", "..">> \o SetToSeq(Children(st, l.node)))], {}, st)
      ELSE Res("", [content |-> JStrList(<<".", "..">>)], {}, st)

readdir(st, path, fh) == Listed(st, Walk(st, path))

LinkRead(st, l) ==
    IF ~Exists(l) THEN Res("ENOENT", None, {}, st)
    ELSE IF l.kind # "link" THEN Res("EINVAL", None, {}, st)
    ELSE Res("", [destination_path |-> JStr(st.names[l.node].target)], {}, st)

readlink(st, path) == LinkRead(st, Lookup(st, path))

\* os.mknod, os.mkdir, os.symlink: a new object where the path names nothing
NewObject(st, l, object, fault) ==
    IF Exists(l) THEN Res("EEXIST", None, {}, st)
    ELSE IF l.node \notin DOMAIN st.names THEN Res("EACCES", None, {}, st)
    ELSE IF l.err # "" THEN Res(l.err, None, {}, st)
    ELSE IF fault # "" THEN Res(fault, None, {}, st)
    ELSE IF object.kind = "file" /\ FreeInos(st) = {} THEN Res("ENOSPC", None, {}, st)
    ELSE Res("", None, {}, [st EXCEPT !.names[l.node] = object])

\* (a free inode holds no content: see Reclaim)
mknod(st, path, mode, dev, fault) ==
    NewObject(st, Lookup(st, path), FileNode(Lowest(FreeInos(st) \cup {MaxIno})), fault)

Removed_dir(st, l, fault) ==
    IF ~Exists(l) THEN Res("ENOENT", None, {}, st)
    ELSE IF l.kind # "dir" THEN Res("ENOTDIR", None, {}, st)
    ELSE IF l.node \notin DOMAIN st.names \/ HasChild(st, l.node) THEN Res("ENOTEMPTY", None, {}, st)
    ELSE IF fault # "" THEN Res(fault, None, {}, st)
    ELSE Res("", None, {}, [st EXCEPT !.names[l.node] = Absent])

rmdir(st, path, fault) == Removed_dir(st, Lookup(st, path), fault)

mkdir(st, path, mode, fault) == NewObject(st, Lookup(st, path), DirNode, fault)

Statvfs(st, l, fault) ==
    IF ~Exists(l) THEN Res(IF l.err # "" THEN l.err ELSE "ENOENT", None, {}, st)
    ELSE IF fault # "" THEN Res(fault, None, {}, st)
    ELSE Res("", [f_bsize |-> JInt(1), f_blocks |-> JInt(MaxLen * MaxIno), f_files |-> JInt(MaxIno),
                  f_ffree |-> JInt(Cardinality(FreeInos(st)))], {}, st)

statfs(st, path, fault) == Statvfs(st, Walk(st, path), fault)

unlink(st, path, fault) == Plain({}, OsUnlink(st, path, TRUE, fault))

\* os.symlink(src, dst) with src = name and dst = target: a link at target
\* whose content is name
symlink(st, name, target, fault) == NewObject(st, Lookup(st, target), LinkNode(name), fault)

rename(st, old, new, fault) == Plain({}, OsRename(st, old, new, TRUE, fault))

\* os.link(src, dst) with src = target and dst = name
OsLink(st, src, dst, fault) ==
    IF ~Exists(src) THEN Res("ENOENT", None, {}, st)
    ELSE IF src.kind = "dir" THEN Res("EPERM", None, {}, st)
    ELSE IF Exists(dst) THEN Res("EEXIST", None, {}, st)
    ELSE IF dst.node \notin DOMAIN st.names \/ src.node \notin DOMAIN st.names
      THEN Res("EACCES", None, {}, st)
    ELSE IF dst.err # "" THEN Res(dst.err, None, {}, st)
    ELSE IF fault # "" THEN Res(fault, None, {}, st)
    ELSE Res("", None, {}, [st EXCEPT !.names[dst.node] = st.names[src.node]])

link(st, target, name, fault) == OsLink(st, Lookup(st, target), Lookup(st, name), fault)

utimens(st, path, times, fault) == Plain({}, OsUtime(st, path, times, fault))

\* the output object built from the value the system call returned
Output(st, sys, r, obj) ==
    IF r.err # "" THEN Res(r.err, None, sys, st) ELSE Res("", obj, sys, r.st)

HandleOf(st, o) == Output(st, {"open"}, o, [handle |-> JInt(o.ret)])

fuse_open(st, path, flags, fault) == HandleOf(st, OsOpen(st, path, flags, TRUE, fault))

create(st, path, mode, fault) ==
    HandleOf(st, OsOpen(st, path, {"O_WRONLY", "O_CREAT"}, TRUE, fault))

ContentOf(st, r) == Output(st, {"lseek", "read"}, r, [content |-> JBytes(IF r.err = "" THEN r.ret ELSE <<>>)])

read(st, path, size, offset, fh) == ContentOf(st, OsSeekRead(st, fh, size, offset, ""))

WrittenOf(st, w) == Output(st, {"lseek", "write"}, w, [bytes_written |-> JInt(w.ret)])

write(st, path, buf, offset, fh) == WrittenOf(st, OsSeekWrite(st, fh, buf, offset, ""))

truncate(st, path, length, fh) == Plain({"open"}, OpenTruncate(st, path, length, TRUE, ""))

flush(st, path, fh, fault) == Plain({"fsync"}, OsFsync(st, fh, fault))

release(st, path, fh, fault) == Plain({"close"}, OsClose(st, fh, fault))

fsync(st, path, datasync, fh, fault) == Plain({"fsync"}, OsFsync(st, fh, fault))

-----------------------------------------------------------------------------
(* The request schemas (matrix/common/schema/input.py) and the operation    *)
(* catalogue (matrix/server/config.py).                                     *)

Fld(name, type, opt) == [name |-> name, type |-> type, opt |-> opt]

Ops == {"access", "chmod", "chown", "getattr", "readdir", "readlink", "mknod", "rmdir",
        "mkdir", "statfs", "unlink", "symlink", "rename", "link", "utimens", "open",
        "create", "read", "write", "truncate", "flush", "release", "fsync"}

Schema(op) ==
    CASE op \in {"access", "chmod", "mkdir", "create"} ->
           {Fld("path", "str", FALSE), Fld("mode", "int", FALSE)}
      [] op = "chown" ->
           {Fld("path", "str", FALSE), Fld("uid", "int", FALSE), Fld("gid", "int", FALSE)}
      [] op = "getattr" -> {Fld("path", "str", FALSE), Fld("fh", "int", TRUE)}
      [] op \in {"readdir", "flush", "release"} ->
           {Fld("path", "str", FALSE), Fld("fh", "int", FALSE)}
      [] op \in {"readlink", "rmdir", "statfs", "unlink"} -> {Fld("path", "str", FALSE)}
      [] op = "mknod" ->
           {Fld("path", "str", FALSE), Fld("mode", "int", FALSE), Fld("dev", "int", FALSE)}
      [] op = "symlink" -> {Fld("name", "str", FALSE), Fld("target", "str", FALSE)}
      [] op = "rename" -> {Fld("old", "str", FALSE), Fld("new", "str", FALSE)}
      [] op = "link" -> {Fld("target", "str", FALSE), Fld("name", "str", FALSE)}
      [] op = "utimens" -> {Fld("path", "str", FALSE), Fld("times", "times", TRUE)}
      [] op = "open" -> {Fld("path", "str", FALSE), Fld("flags", "int", FALSE)}
      [] op = "read" ->
           {Fld("path", "str", FALSE), Fld("size", "int", FALSE),
            Fld("offset", "int", FALSE), Fld("fh", "int", FALSE)}
      [] op = "write" ->
           {Fld("path", "str", FALSE), Fld("data", "bytes", FALSE),
            Fld("offset", "int", FALSE), Fld("fh", "int", FALSE)}
      [] op = "truncate" ->
           {Fld("path", "str", FALSE), Fld("length", "int", FALSE), Fld("fh", "int", TRUE)}
      [] op = "fsync" ->
           {Fld("path", "str", FALSE), Fld("datasync", "int", FALSE), Fld("fh", "int", FALSE)}

FieldNames(op) == {f.name : f \in Schema(op)}

\* WriteInput.decode_base64_data: a str is decoded before the field is checked
\* a validator that leaves the text as it is
decode_nothing(v) == v

\* WriteInput.decode_base64_data, ReadOutput.decode_base64_content
decode_base64_data(v) ==
    IF v.t = "str" THEN (IF b64decode(v.s).ok THEN JBytes(b64decode(v.s).v) ELSE Val("invalid", "", 0, <<>>, <<>>, {}))
    ELSE v

\* the value of field f among the keyword arguments kw, before it is checked
FieldValue(f, kw) ==
    IF f.name \notin DOMAIN kw THEN JNull
    ELSE IF f.type = "bytes" THEN decode_base64_data(kw[f.name])
    ELSE kw[f.name]

\* pydantic's check of a value against the field's type
\* a number that int accepts: a float with a fractional part is none
IsWholeSeconds(t) == t % 1000 = 0

TypeOk(f, v) ==
    CASE v.t = "null" -> f.opt
      [] f.type = "str" -> v.t = "str"
      [] f.type = "int" -> v.t = "int"
      [] f.type = "bytes" -> v.t = "bytes"
      [] f.type = "times" -> /\ v.t = "list" /\ Len(v.b) = 2 /\ Len(v.l) = 0
                             /\ \A i \in DOMAIN v.b : IsWholeSeconds(v.b[i])

FieldOk(f, kw) == IF f.name \notin DOMAIN kw THEN f.opt ELSE TypeOk(f, FieldValue(f, kw))

\* input_class(**kw): [ok, data]; ok FALSE is the ValidationError. Keyword
\* arguments that are no field of the schema are ignored.
input_class(op, kw) ==
    [ok |-> \A f \in Schema(op) : FieldOk(f, kw),
     data |-> [n \in FieldNames(op) |-> FieldValue(CHOOSE f \in Schema(op) : f.name = n, kw)]]

\* BaseModel.model_dump, with the override of WriteInput and ReadOutput
model_dump(obj) ==
    [k \in DOMAIN obj |-> IF obj[k].t = "bytes" THEN JStr(b64encode(obj[k].b)) ELSE obj[k]]

\* endpoint_config: the backend argument list and whether an output type is set
\* a catalogue whose every entry declares the arguments path and fh
endpoint_config_path_fh(op) == [args |-> <<"path", "fh">>, output_type |-> FALSE]

endpoint_config(op) ==
    CASE op \in {"access", "chmod", "mkdir", "create"} ->
           [args |-> <<"path", "mode">>, output_type |-> op = "create"]
      [] op = "chown" -> [args |-> <<"path", "uid", "gid">>, output_type |-> FALSE]
      [] op \in {"getattr", "readdir"} -> [args |-> <<"path", "fh">>, output_type |-> TRUE]
      [] op \in {"readlink", "statfs"} -> [args |-> <<"path">>, output_type |-> TRUE]
      [] op \in {"rmdir", "unlink"} -> [args |-> <<"path">>, output_type |-> FALSE]
      [] op = "mknod" -> [args |-> <<"path", "mode", "dev">>, output_type |-> FALSE]
      [] op = "symlink" -> [args |-> <<"name", "target">>, output_type |-> FALSE]
      [] op = "rename" -> [args |-> <<"old", "new">>, output_type |-> FALSE]
      [] op = "link" -> [args |-> <<"target", "name">>, output_type |-> FALSE]
      [] op = "utimens" -> [args |-> <<"path", "times">>, output_type |-> FALSE]
      [] op = "open" -> [args |-> <<"path", "flags">>, output_type |-> TRUE]
      [] op = "read" -> [args |-> <<"path", "size", "offset", "fh">>, output_type |-> TRUE]
      [] op = "write" -> [args |-> <<"path", "data", "offset", "fh">>, output_type |-> TRUE]
      [] op = "truncate" -> [args |-> <<"path", "length", "fh">>, output_type |-> FALSE]
      [] op \in {"flush", "release"} -> [args |-> <<"path", "fh">>, output_type |-> FALSE]
      [] op = "fsync" -> [args |-> <<"path", "datasync", "fh">>, output_type |-> FALSE]

-----------------------------------------------------------------------------
(* The server dispatcher (matrix/server/startup.py).                        *)

full_path(partial) ==
    os_path_join(ROOT, IF StartsWith(partial, "/") THEN Tail(partial) ELSE partial)

get_full_path(root, partial) ==
    os_path_join(root, IF StartsWith(partial, "/") THEN Tail(partial) ELSE partial)

\* an Optional[int] fh as the backend receives it
FhOf(v) == IF v.t = "null" THEN NoneFh ELSE v.n

\* operation_func(**operation_args) for the catalogue entry of op
Invoke(op, st, a, fault) ==
    CASE op = "access" -> access(st, a["path"].s, a["mode"].n, fault)
      [] op = "chmod" -> chmod(st, a["path"].s, a["mode"].n, fault)
      [] op = "chown" -> chown(st, a["path"].s, a["uid"].n, a["gid"].n, fault)
      [] op = "getattr" -> fuse_getattr(st, a["path"].s, FhOf(a["fh"]))
      [] op = "readdir" -> readdir(st, a["path"].s, a["fh"].n)
      [] op = "readlink" -> readlink(st, a["path"].s)
      [] op = "mknod" -> mknod(st, a["path"].s, a["mode"].n, a["dev"].n, fault)
      [] op = "rmdir" -> rmdir(st, a["path"].s, fault)
      [] op = "mkdir" -> mkdir(st, a["path"].s, a["mode"].n, fault)
      [] op = "statfs" -> statfs(st, a["path"].s, fault)
      [] op = "unlink" -> unlink(st, a["path"].s, fault)
      [] op = "symlink" -> symlink(st, a["name"].s, a["target"].s, fault)
      [] op = "rename" -> rename(st, a["old"].s, a["new"].s, fault)
      [] op = "link" -> link(st, a["target"].s, a["name"].s, fault)
      [] op = "utimens" -> utimens(st, a["path"].s, a["times"].b, fault)
      [] op = "open" -> fuse_open(st, a["path"].s, a["flags"].f, fault)
      [] op = "create" -> create(st, a["path"].s, a["mode"].n, fault)
      [] op = "read" -> read(st, a["path"].s, a["size"].n, a["offset"].n, a["fh"].n)
      [] op = "write" -> write(st, a["path"].s, a["data"].b, a["offset"].n, a["fh"].n)
      [] op = "truncate" -> truncate(st, a["path"].s, a["length"].n, FhOf(a["fh"]))
      [] op = "flush" -> flush(st, a["path"].s, a["fh"].n, fault)
      [] op = "release" -> release(st, a["path"].s, a["fh"].n, fault)
      [] op = "fsync" -> fsync(st, a["path"].s, a["datasync"].n, a["fh"].n, fault)

\* str(e) of the exception a backend function raises
str(err) == "[Errno " \o err \o "]"

\* What one run of handle_request leaves: the HTTP status; the envelope's
\* status, its error (JNull or a str) and data (<<>> for null, <<x>> for an
\* output); the calls made
\* of the backend function, the exception the backend raised, the state.
Answer(http, status, error, output, invoked, raised, st) ==
    [http |-> http, status |-> status, error |-> error, data |-> output,
     invoked |-> invoked, raised |-> raised, st |-> st]

\* operation_args, with the one key "path" resolved
OperationArgs(op, input_data) ==
    [arg \in Range(endpoint_config(op).args) |->
        IF arg = "path" THEN JStr(full_path(input_data.data[arg].s)) ELSE input_data.data[arg]]

\* an envelope that tells of an error and carries no message
EnvelopeWithoutMessage(op, call) ==
    Answer(200, IF call.result.err = "" THEN "success" ELSE "error", JNull, <<>>,
           <<[func |-> op, args |-> call.args]>>, call.result.err, call.result.st)

\* an envelope that tells of a success whatever the backend function did
EnvelopeOfSuccess(op, call) ==
    Answer(200, "success", JNull, <<>>,
           <<[func |-> op, args |-> call.args]>>, call.result.err, call.result.st)

\* the envelope for the outcome of the one call made of the backend function
Envelope(op, call) ==
    IF call.result.err = ""
      THEN Answer(200, "success", JNull,
                  IF endpoint_config(op).output_type THEN <<model_dump(call.result.ret)>> ELSE <<>>,
                  <<[func |-> op, args |-> call.args]>>, "", call.result.st)
      ELSE Answer(200, "error", JStr(str(call.result.err)), <<>>,
                  <<[func |-> op, args |-> call.args]>>, call.result.err, call.result.st)

\* a dispatcher that goes on to the backend function with whatever fields the
\* body has, valid or not
DispatchUnvalidated(op, input_data, st, fault) ==
    IF \E arg \in Range(endpoint_config(op).args) : arg \notin DOMAIN input_data.data
      THEN Answer(200, "error", JStr("AttributeError"), <<>>, <<>>, "", st)
    ELSE Envelope(op, [args |-> OperationArgs(op, input_data),
                       result |-> Invoke(op, st, OperationArgs(op, input_data), fault)])

\* handle_request once the body is parsed into input_data
Dispatch(op, input_data, st, fault) ==
    IF ~input_data.ok THEN Answer(400, "", JNull, <<>>, <<>>, "", st)
    ELSE IF \E arg \in Range(endpoint_config(op).args) : arg \notin DOMAIN input_data.data
      THEN Answer(200, "error", JStr("AttributeError"), <<>>, <<>>, "", st)
    ELSE CHOOSE response \in
             {Envelope(op, call) :
                 call \in {[args |-> operation_args, result |-> Invoke(op, st, operation_args, fault)] :
                              operation_args \in {OperationArgs(op, input_data)}}} : TRUE

\* body is [obj, kw]: obj tells a JSON object (its members kw) from any other
\* JSON value, for which input_class(**request.json) raises the TypeError
\* that no except clause of handle_request names. (A one-element set names a
\* value that is used more than once.)
handle_request(op, body, st, fault) ==
    IF ~body.obj THEN Answer(500, "", JNull, <<>>, <<>>, "", st)
    ELSE CHOOSE response \in
             {Dispatch(op, input_data, st, fault) : input_data \in {input_class(op, body.kw)}} : TRUE

-----------------------------------------------------------------------------
(* The client adapter HttpFS (src/matrix/client/fs.py).                     *)

NoAnswer == Answer(0, "", JNull, <<>>, <<>>, "", [names |-> <<>>, data |-> <<>>, fds |-> <<>>])

\* the attribute of the decoded output a capability reads ("" when it reads
\* none, or dumps the whole output)
OutAttr(cap) ==
    CASE cap = "readdir" -> "content"
      [] cap = "readlink" -> "path"
      [] cap \in {"open", "create"} -> "handle"
      [] cap = "read" -> "content"
      [] cap = "write" -> "size"
      [] OTHER -> ""

\* FuseResponse.from_dict: the data validated as the output type; ok FALSE is
\* a validation error (ReadOutput.decode_base64_content)
from_dict(re) ==
    IF re.data = <<>> THEN [ok |-> TRUE, data |-> <<>>]
    ELSE LET d == re.data[1]
             bad == \E k \in DOMAIN d : k = "content" /\ d[k].t = "str" /\ ~b64decode(d[k].s).ok
         IN [ok |-> ~bad,
             data |-> <<[k \in DOMAIN d |->
                            IF k = "content" /\ d[k].t = "str" THEN JBytes(b64decode(d[k].s).v)
                            ELSE d[k]]>>]

\* One capability call: [posts, exc, re, st] with posts the HTTP calls sent,
\* exc the exception that leaves the method ("" when it returns) and re the
\* server's answer.
Capability(posts, exc, re, st) == [posts |-> posts, exc |-> exc, re |-> re, st |-> st]

\* the capability method once the request is answered
Decode(cap, re, response) ==
    IF re.http >= 400 \/ ~response.ok \/ re.status = "error"
      THEN Capability(1, "ECONNRESET", re, re.st)
    ELSE IF OutAttr(cap) # "" /\ (response.data = <<>> \/ OutAttr(cap) \notin DOMAIN response.data[1])
      THEN Capability(1, "AttributeError", re, re.st)
    ELSE Capability(1, "", re, re.st)

\* the one requests.post of _request
Post(cap, payload, st, fault) ==
    CHOOSE c \in {Decode(cap, re, from_dict(re)) :
                     re \in {handle_request(cap, [obj |-> TRUE, kw |-> payload], st, fault)}} : TRUE

HttpFS(cap, kwargs, st, fault) ==
    CHOOSE c \in
        {IF ~f_input.ok THEN Capability(0, "ValidationError", NoAnswer, st)
         ELSE Post(cap, model_dump(f_input.data), st, fault) :
            f_input \in {input_class(cap, kwargs)}} : TRUE

-----------------------------------------------------------------------------

(* The requests the HTTP server handles: the capability calls of the client *)
(* adapter, and the bodies another HTTP client can post.                    *)

NoCli == [cap |-> "", posts |-> 0, exc |-> ""]
NoReq == [op |-> "", obj |-> TRUE, valid |-> TRUE, invoked |-> <<>>, raised |-> ""]
NoResp == [http |-> 0, status |-> "", error |-> JNull, data |-> <<>>]

Served(op, valid, re) ==
    /\ names' = re.st.names
    /\ data' = re.st.data
    /\ fds' = re.st.fds
    /\ req' = [op |-> op, obj |-> valid.obj, valid |-> valid.ok,
               invoked |-> re.invoked, raised |-> re.raised]
    /\ resp' = [http |-> re.http, status |-> re.status, error |-> re.error, data |-> re.data]

\* whether body is an instance of the request schema of op
IsValid(op, body) == [obj |-> body.obj, ok |-> body.obj /\ input_class(op, body.kw).ok]

\* The keyword arguments with which each capability method builds its input
\* object, from the positional arguments a of the call. NoneFh and <<>>
\* stand for a None.
OptInt(n) == IF n = NoneFh THEN JNull ELSE JInt(n)

Kwargs(cap, a) ==
    CASE cap \in {"access", "chmod", "mkdir", "create"} -> [path |-> JStr(a[1]), mode |-> JInt(a[2])]
      [] cap = "chown" -> [path |-> JStr(a[1]), uid |-> JInt(a[2]), gid |-> JInt(a[3])]
      [] cap = "getattr" -> [path |-> JStr(a[1]), fh |-> OptInt(a[2])]
      [] cap \in {"readdir", "flush", "release"} -> [path |-> JStr(a[1]), fh |-> JInt(a[2])]
      [] cap \in {"readlink", "rmdir", "statfs", "unlink"} -> [path |-> JStr(a[1])]
      [] cap = "mknod" -> [path |-> JStr(a[1]), mode |-> JInt(a[2]), dev |-> JInt(a[3])]
      [] cap = "symlink" -> [name |-> JStr(a[1]), target |-> JStr(a[2])]
      [] cap = "rename" -> [old |-> JStr(a[1]), new |-> JStr(a[2])]
      [] cap = "link" -> [target |-> JStr(a[1]), name |-> JStr(a[2])]
      [] cap = "utimens" -> [path |-> JStr(a[1]), times |-> IF a[2] = <<>> THEN JNull ELSE JList(a[2])]
      [] cap = "open" -> [path |-> JStr(a[1]), flags |-> JFlags(a[2])]
      [] cap = "read" ->
           [path |-> JStr(a[1]), size |-> JInt(a[2]), offset |-> JInt(a[3]), fh |-> JInt(a[4])]
      [] cap = "write" ->
           [path |-> JStr(a[1]), data |-> JBytes(a[2]), offset |-> JInt(a[3]), fh |-> JInt(a[4])]
      [] cap = "truncate" -> [path |-> JStr(a[1]), length |-> JInt(a[2]), fh |-> OptInt(a[3])]
      [] cap = "fsync" -> [path |-> JStr(a[1]), fdatasync |-> JInt(a[2]), fh |-> JInt(a[3])]

\* A capability method of HttpFS runs: at most one request reaches the server.
ClientCall(cap, a, fault) ==
    /\ backend = "func"
    /\ \E c \in {HttpFS(cap, Kwargs(cap, a), Cur, fault)} :
          /\ cli' = [cap |-> cap, posts |-> c.posts, exc |-> c.exc]
          /\ IF c.posts = 0
               THEN req' = NoReq /\ resp' = NoResp /\ UNCHANGED <<names, data, fds>>
               ELSE \E v \in {IsValid(cap, [obj |-> TRUE,
                                            kw |-> model_dump(input_class(cap, Kwargs(cap, a)).data)])} :
                       Served(cap, v, c.re)
    /\ UNCHANGED <<backend, memvars, open_files, last, threads>>

\* The bodies another HTTP client posts to the routes of write, rename and
\* fsync: a well-formed body for a handle fh, or that body with field f
\* dropped ("drop"), of another type ("retype"), null ("null"), with text
\* that is not base64 ("base64"), or a JSON array in place of the object.
WellFormed(op, fh) ==
    CASE op = "write" -> [path |-> JStr("/a"), data |-> JStr(b64encode(<<1>>)),
                          offset |-> JInt(0), fh |-> JInt(fh)]
      [] op = "rename" -> [old |-> JStr("/srv/a"), new |-> JStr("/srv/a")]
      [] op = "fsync" -> [path |-> JStr("/a"), datasync |-> JInt(0), fh |-> JInt(fh)]

Damaged(kw, how, f) ==
    CASE how = "drop" -> [k \in DOMAIN kw \ {f} |-> kw[k]]
      [] how = "retype" -> [kw EXCEPT ![f] = IF kw[f].t = "str" THEN JInt(1) ELSE JStr("x")]
      [] how = "null" -> [kw EXCEPT ![f] = JNull]
      [] how = "base64" -> [kw EXCEPT ![f] = JStr("AQ=")]
      [] OTHER -> kw

Body(op, how, f, fh) ==
    [obj |-> how # "array", kw |-> IF how = "array" THEN <<>> ELSE Damaged(WellFormed(op, fh), how, f)]

\* A body posted to the route of op by a client other than HttpFS.
RawRequest(op, how, f, fh) ==
    /\ backend = "func"
    /\ \E body \in {Body(op, how, f, fh)} :
          \E re \in {handle_request(op, body, Cur, "")}, v \in {IsValid(op, body)} : Served(op, v, re)
    /\ cli' = NoCli
    /\ UNCHANGED <<backend, memvars, open_files, last, threads>>

RawPaths == {"/a", "/srv/a"}
FuncFlags == {{}, {"O_RDWR"}, {"O_RDWR", "O_APPEND"}}
HandlePath == "/a"
WriteBufs == {b \in Contents : Len(b) > 0 /\ \A i \in DOMAIN b : b[i] = i % 2}
WriteOffsets == {0, MaxLen}
ReadOffsets == {0, 1}

Access == ClientCall("access", <<HandlePath, 0>>, "")

Chmod == ClientCall("chmod", <<HandlePath, 0>>, "")

Chown == ClientCall("chown", <<HandlePath, 0, 0>>, "")

Getattr == \E p \in VPaths : ClientCall("getattr", <<p, NoneFh>>, "")

Readdir == \E p \in {"/", HandlePath} : ClientCall("readdir", <<p, 0>>, "")

Readlink == ClientCall("readlink", <<HandlePath>>, "")

Mknod == ClientCall("mknod", <<HandlePath, 0, 0>>, "")

Rmdir == ClientCall("rmdir", <<HandlePath>>, "")

Mkdir == \E fault \in Faults : ClientCall("mkdir", <<HandlePath, 0>>, fault)

Statfs == ClientCall("statfs", <<HandlePath>>, "")

Unlink == \E p \in VPaths : ClientCall("unlink", <<p>>, "")

Symlink == \E name \in RawPaths, target \in RawPaths : ClientCall("symlink", <<name, target>>, "")

Rename == \E old \in RawPaths, new \in RawPaths : ClientCall("rename", <<old, new>>, "")

Link == \E target \in RawPaths, name \in RawPaths : ClientCall("link", <<target, name>>, "")

Utimens == \E times \in {<<>>, <<0, 0>>} : ClientCall("utimens", <<HandlePath, times>>, "")

Open ==
    \E p \in VPaths, flags \in FuncFlags :
        /\ p # HandlePath => flags = {}
        /\ ClientCall("open", <<p, flags>>, "")

Create == \E p \in VPaths : ClientCall("create", <<p, 0>>, "")

Read ==
    \E offset \in ReadOffsets, fh \in ServerFhInputs :
        ClientCall("read", <<HandlePath, MaxLen, offset, fh>>, "")

Write ==
    \E buf \in WriteBufs, offset \in WriteOffsets, fh \in ServerFhInputs :
        ClientCall("write", <<HandlePath, buf, offset, fh>>, "")

Truncate ==
    \E fh \in {NoneFh, 1} : ClientCall("truncate", <<HandlePath, 1, fh>>, "")

Flush == \E fh \in ServerFhInputs : ClientCall("flush", <<HandlePath, fh>>, "")

Release == \E fh \in ServerFhInputs, fault \in Faults : ClientCall("release", <<HandlePath, fh>>, fault)

Fsync == \E fh \in ServerFhInputs : ClientCall("fsync", <<HandlePath, 0, fh>>, "")

\* a well-formed fsync body, which HttpFS never sends
FsyncRequest == \E fh \in ServerFhInputs : RawRequest("fsync", "", "", fh)

\* bodies that are no instance of the request schema
InvalidRequest ==
    \E op \in {"write", "rename"}, how \in {"drop", "retype", "null", "base64"} :
        \E f \in FieldNames(op) :
            /\ how = "base64" => f = "data"
            /\ RawRequest(op, how, f, 1)

NonObjectRequest == \E op \in {"write", "rename"} : RawRequest(op, "array", "", 1)

FuncNext ==
    \/ Access \/ Chmod \/ Chown \/ Getattr \/ Readdir \/ Readlink \/ Mknod \/ Rmdir
    \/ Mkdir \/ Statfs \/ Unlink \/ Symlink \/ Rename \/ Link \/ Utimens
    \/ Open \/ Create \/ Read \/ Write \/ Truncate \/ Flush \/ Release \/ Fsync
    \/ FsyncRequest \/ InvalidRequest \/ NonObjectRequest

-----------------------------------------------------------------------------

NoCall == [op |-> "", path |-> "", fh |-> NoneFh, err |-> "", ret |-> None, sys |-> {}]

\* the threads of the mount (FUSE(..., nothreads=False)), none in a call
Threads == {1, 2}
Idle == [pc |-> "idle", fh |-> 0, path |-> "", flags |-> {}, offset |-> 0, buf |-> <<>>]
NoThreads == [t \in Threads |-> Idle]

Start ==
    /\ names = [n \in Nodes |-> Absent]
    /\ data = [i \in Inodes |-> <<>>]
    /\ fds = [f \in IF backend = "nt" THEN FdNums ELSE ServerFdNums |-> NoFd]
    /\ open_files = <<>>
    /\ last = NoCall
    /\ NoMem
    /\ req = NoReq
    /\ resp = NoResp
    /\ cli = NoCli
    /\ threads = NoThreads

Init == backend \in {"nt", "func"} /\ Start

Next == NtNext \/ FuncNext

Spec == Init /\ [][Next]_vars

\* one deployment at a time
InitNt == backend = "nt" /\ Start
SpecNt == InitNt /\ [][NtNext]_vars

InitFunc == backend = "func" /\ Start
SpecFunc == InitFunc /\ [][FuncNext]_vars

-----------------------------------------------------------------------------
(* The handle registry of the Windows-NT backend *)

HandleIo == {"read", "write", "flush", "fsync", "truncate"}

\* C2: in the Windows-NT backend a read, write, flush, fsync or handle-based
\* truncate whose handle id is not in the registry when it is called raises
\* EBADF, makes no system call on any descriptor and changes nothing.
C2_UnregisteredHandleIsEBADF ==
    [][(/\ last'.op \in HandleIo
        /\ last'.fh # NoneFh
        /\ last'.fh \notin DOMAIN open_files)
       => (/\ last'.err = "EBADF"
           /\ last'.sys = {}
           /\ UNCHANGED <<names, data, fds, open_files>>)]_vars

\* C2 happens: the file was created, its handle 1 is registered no more, and
\* a write on handle 1 was refused.
C2_Witness ==
    /\ names["/srv/a"].kind = "file"
    /\ open_files = <<>>
    /\ last.op = "write" /\ last.fh = 1 /\ last.err = "EBADF" /\ last.sys = {}

\* C3: after release(h) has closed the descriptor of h, a further release(h)
\* with no call in between fails with EBADF and closes no descriptor.
C3_SecondReleaseRejected ==
    [][(/\ last.op = "release" /\ last.err = "" /\ "close" \in last.sys
        /\ last'.op = "release" /\ last'.fh = last.fh)
       => (last'.err = "EBADF" /\ "close" \notin last'.sys)]_vars

\* C5: the scenario create -> write(B, 0) -> release -> open read-only ->
\* read(len(B), 0), run from the current state on path p.
C5_Read(B, o) == NtRead(o.st, o.reg, Len(B), 0, o.ret, "")

C5_Reopened(B, o) == o.err = "" /\ C5_Read(B, o).err = "" /\ C5_Read(B, o).ret = B

C5_Released(p, B, r) == r.err = "" /\ C5_Reopened(B, NtOpen(r.st, r.reg, p, {}, ""))

C5_Written(p, B, fh, w) ==
    w.err = "" /\ w.ret = Len(B) /\ C5_Released(p, B, NtRelease(w.st, w.reg, fh, ""))

C5_Scenario(p, B, c) ==
    c.err = "" => C5_Written(p, B, c.ret, NtWrite(c.st, c.reg, B, 0, c.ret, ""))

\* C5: in every reachable state and for every content B, when create(p)
\* returns a handle, write(p, B, 0, fh) returns len(B), release(fh) succeeds,
\* and a fresh read-only open of p reads B back with read(p, len(B), 0, fh2).
C5_CreateWriteReleaseOpenRead ==
    backend = "nt" =>
        \A p \in VPaths, B \in Contents : C5_Scenario(p, B, NtCreate(Cur, open_files, p, ""))

\* C5 happens: a read through a read-only handle returned a full-length
\* content, the handle create returned being registered no more.
C5_Witness ==
    /\ last.op = "read" /\ last.err = "" /\ last.fh \in DOMAIN open_files
    /\ open_files[last.fh].flags = {}
    /\ DOMAIN open_files = {last.fh}
    /\ Len(last.ret) = MaxLen

-----------------------------------------------------------------------------
(* Writing and reading back through one handle *)

\* the handles open or create have returned and release has not taken back
Handles == IF backend = "nt" THEN DOMAIN open_files ELSE {fd \in DOMAIN fds : fds[fd] # NoFd}

C4_NtReadsBack(B, O, fh, w) ==
    (w.err = "" /\ w.ret = Len(B)) =>
        /\ NtRead(w.st, w.reg, Len(B), O, fh, "").err = ""
        /\ NtRead(w.st, w.reg, Len(B), O, fh, "").ret = B

C4_ReadsBack(B, O, fh, w) ==
    (w.err = "" /\ w.ret.bytes_written = JInt(Len(B))) =>
        /\ read(w.st, HandlePath, Len(B), O, fh).err = ""
        /\ read(w.st, HandlePath, Len(B), O, fh).ret.content = JBytes(B)

\* write(path, B, O, fh) returning len(B) is followed by a
\* read(path, len(B), O, fh) that returns B
C4_RoundTrip(B, O, fh) ==
    IF backend = "nt" THEN C4_NtReadsBack(B, O, fh, NtWrite(Cur, open_files, B, O, fh, ""))
    ELSE C4_ReadsBack(B, O, fh, write(Cur, HandlePath, B, O, fh))

\* C4 as stated: for every content B, every offset O and every handle that
\* open or create returned, a write of B at O that wrote len(B) bytes is
\* followed by a read of len(B) bytes at O that returns B.
C4_EveryHandleRoundTrips ==
    \A fh \in Handles, B \in Contents, O \in Offsets : C4_RoundTrip(B, O, fh)

-----------------------------------------------------------------------------
(* The dispatcher's answers *)

\* C1: every envelope handle_request builds (the body of an HTTP 200 answer)
\* has status "error" exactly when its error is non-null and its data null,
\* and status "success" exactly when its error is null.
C1_EnvelopeInvariant ==
    resp.http = 200 =>
        /\ resp.status \in {"success", "error"}
        /\ resp.status = "error" <=> (resp.error # JNull /\ resp.data = <<>>)
        /\ resp.status = "success" <=> resp.error = JNull

\* C1 happens: the backend function raised and the envelope tells the error.
C1_Witness ==
    /\ resp.http = 200 /\ resp.status = "error" /\ resp.error # JNull
    /\ req.raised # "" /\ Len(req.invoked) = 1

\* C6: the path every backend call receives lies inside the root directory.
C6_BackendPathInsideRoot ==
    \A i \in DOMAIN req.invoked :
        "path" \in DOMAIN req.invoked[i].args => InsideRoot(req.invoked[i].args["path"].s)

PathFields == {"old", "new", "target", "name"}

\* C7: the old and new of rename, the target and name of link and of symlink
\* reach the backend function as absolute paths under the root directory.
C7_EveryPathFieldResolved ==
    \A i \in DOMAIN req.invoked :
        \A k \in PathFields \cap DOMAIN req.invoked[i].args :
            StartsWith(req.invoked[i].args[k].s, ROOT \o "/")

C9_BackendExceptionAnswered ==
    [][/\ req'.raised # "" =>
            /\ resp'.http = 200 /\ resp'.status = "error"
            /\ resp'.error = JStr(str(req'.raised))
            /\ resp'.data = <<>>
       /\ (req.raised # "" /\ req'.op # "") => resp'.http \in {200, 400, 500}]_vars

\* C9 happens: the backend
\* function raised ENOENT and the envelope carries its message.
C9_Witness ==
    /\ req.raised = "ENOENT" /\ resp.status = "error"
    /\ resp.error = JStr(str("ENOENT"))

\* C10: a request that passes validation calls the backend function of its
\* operation exactly once, with the argument names the catalogue declares; no
\* request calls it more than once; and a capability call of the client
\* sends exactly one HTTP request.
C10_OneCallPerRequest ==
    /\ Len(req.invoked) <= 1
    /\ (req.op # "" /\ req.obj /\ req.valid) =>
          /\ Len(req.invoked) = 1
          /\ req.invoked[1].func = req.op
          /\ DOMAIN req.invoked[1].args = Range(endpoint_config(req.op).args)
    /\ cli.cap # "" => cli.posts = 1

-----------------------------------------------------------------------------
(* The flags the registry keeps *)

CreationFlags == {"O_CREAT", "O_EXCL", "O_TRUNC"}

\* C14: the registry holds for every handle the flags its descriptor was
\* opened with (every handle create returned being open for writing); flush
\* on a registered handle with neither O_WRONLY nor O_RDWR returns without
\* an error and without a system call, and flush on a registered handle open
\* for writing calls fsync on the descriptor.
C14_FlushFollowsOpenFlags ==
    [][/\ \A h \in DOMAIN open_files' :
              open_files'[h].flags \ CreationFlags = fds'[h].flags \ CreationFlags
       /\ (last'.op = "create" /\ last'.err = "") =>
              Writable(open_files'[last'.ret].flags)
       /\ (last'.op = "flush" /\ last'.fh \in DOMAIN open_files) =>
              IF Writable(open_files[last'.fh].flags)
                THEN last'.sys = {"fsync"}
                ELSE last'.err = "" /\ last'.sys = {} /\ UNCHANGED <<names, data, fds, open_files>>]_vars

\* C14 happens: flush on a handle opened read-only returned without syncing.
C14_Witness ==
    /\ last.op = "flush" /\ last.err = "" /\ last.sys = {}
    /\ last.fh \in DOMAIN open_files /\ open_files[last.fh].flags = {}

-----------------------------------------------------------------------------
(* What the client adapter raises and builds *)

\* the errno names a FuseOSError of the model carries
OsErrorCodes ==
    {"ECONNRESET", "ENOENT", "EBADF", "EIO", "EEXIST", "EACCES", "EINVAL", "EISDIR",
     "ENOTDIR", "ENOTEMPTY", "EMFILE", "ENOSPC", "ELOOP", "EFBIG", "EPERM", "EXDEV"}

\* C15: whatever leaves a capability method of the client as an exception is
\* a FuseOSError carrying an OS error code.
C15_OnlyOsErrorsEscape == cli.exc # "" => cli.exc \in OsErrorCodes

\* C16: when the client opens a path that names nothing, the backend raises
\* ENOENT, the envelope has status "error", a non-null error and null data,
\* and the client raises ENOENT.
C16_OpenMissingRaisesENOENT ==
    (cli.cap = "open" /\ req.raised = "ENOENT") =>
        /\ resp.status = "error" /\ resp.error # JNull /\ resp.data = <<>>
        /\ cli.exc = "ENOENT"

\* the fields of the response schema of op (none when it declares no output)
OutputFields(op) ==
    CASE op = "getattr" -> {"st_atime", "st_ctime", "st_gid", "st_mode", "st_mtime",
                            "st_nlink", "st_size", "st_uid"}
      [] op = "readdir" -> {"content"}
      [] op = "readlink" -> {"destination_path"}
      [] op = "statfs" -> {"f_bavail", "f_bfree", "f_blocks", "f_bsize", "f_favail",
                           "f_ffree", "f_files", "f_flag", "f_frsize", "f_namemax"}
      [] op \in {"open", "create"} -> {"handle"}
      [] op = "read" -> {"content"}
      [] op = "write" -> {"bytes_written"}
      [] OTHER -> {}

\* positional arguments with which a capability may be called
SampleArgs(cap) ==
    CASE cap = "utimens" -> <<"/a", <<>>>>
      [] cap \in {"symlink", "rename", "link"} -> <<"/a", "/a">>
      [] cap = "open" -> <<"/a", {}>>
      [] cap = "write" -> <<"/a", <<>>, 0, 0>>
      [] OTHER -> <<"/a", 0, 0, 0>>

\* C17: for every capability the client has called, the keyword arguments
\* the client builds its request from are an instance of the operation's
\* request schema, and the attribute the client reads from the decoded
\* output is a field of the operation's response schema.
C17_ClientMatchesSchemas ==
    \A cap \in Ops :
        cli.cap = cap =>
            /\ input_class(cap, Kwargs(cap, SampleArgs(cap))).ok
            /\ OutAttr(cap) # "" => OutAttr(cap) \in OutputFields(cap)

-----------------------------------------------------------------------------
(* The operation catalogue *)

\* the parameters of the backend function of op (matrix/common/func.py)
Parameters(op) ==
    CASE op \in {"access", "chmod", "mkdir", "create"} -> {"path", "mode"}
      [] op = "chown" -> {"path", "uid", "gid"}
      [] op \in {"getattr", "readdir", "flush", "release"} -> {"path", "fh"}
      [] op \in {"readlink", "rmdir", "statfs", "unlink"} -> {"path"}
      [] op = "mknod" -> {"path", "mode", "dev"}
      [] op = "symlink" -> {"name", "target"}
      [] op = "rename" -> {"old", "new"}
      [] op = "link" -> {"target", "name"}
      [] op = "utimens" -> {"path", "times"}
      [] op = "open" -> {"path", "flags"}
      [] op = "read" -> {"path", "size", "offset", "fh"}
      [] op = "write" -> {"path", "data", "offset", "fh"}
      [] op = "truncate" -> {"path", "length", "fh"}
      [] op = "fsync" -> {"path", "datasync", "fh"}

\* C18: the catalogue has an entry for each of the 23 operations, every
\* request handled names one of them, and every argument name of an entry
\* is a field of the entry's request schema and a parameter of its backend
\* function.
C18_CatalogueMatchesSchemas ==
    /\ req.op # "" => req.op \in Ops
    /\ Cardinality(Ops) = 23
    /\ \A op \in Ops :
          /\ Range(endpoint_config(op).args) \subseteq FieldNames(op)
          /\ Range(endpoint_config(op).args) \subseteq Parameters(op)

\* C18 happens: a rename request was dispatched with the arguments its
\* catalogue entry declares.
C18_Witness ==
    /\ req.op = "rename" /\ Len(req.invoked) = 1
    /\ DOMAIN req.invoked[1].args = {"old", "new"}

-----------------------------------------------------------------------------
(* Truncation by handle and by path *)

\* path p names the file that the open descriptor fh refers to
SameFile(full, fh) ==
    /\ full \in Nodes
    /\ names[full].kind = "file"
    /\ names[full].ino = fds[fh].ino

\* the outcome r of a truncate to L of the file of fh: the call returned and
\* the file has L bytes
C20_Truncated(fh, L, r) == r.err = "" /\ Len(r.st.data[fds[fh].ino]) = L

C20_Nt(p, fh, L) ==
    /\ C20_Truncated(fh, L, NtTruncate(Cur, open_files, p, L, fh, ""))
    /\ FreeFds(Cur) # {} => C20_Truncated(fh, L, NtTruncate(Cur, open_files, p, L, NoneFh, ""))
    /\ NtTruncate(Cur, open_files, p, L, NoneFh, "").err \in {"", "EMFILE"}

\* the current state in a process that may hold one more descriptor
Roomy == [names |-> names, data |-> data, fds |-> [f \in 1..(Len(fds) + 1) |-> IF f <= Len(fds) THEN fds[f] ELSE NoFd]]

C20_Func(p, fh, L) ==
    /\ C20_Truncated(fh, L, truncate(Roomy, full_path(p), L, fh))
    /\ C20_Truncated(fh, L, truncate(Roomy, full_path(p), L, NoneFh))
    /\ truncate(Cur, full_path(p), L, fh) = truncate(Cur, full_path(p), L, NoneFh)
    /\ truncate(Cur, full_path(p), L, fh).err \in {"", "EMFILE"}

\* C20: in every reachable state, for every handle fh open for writing, every
\* path p that names the file of fh and every length L, truncate(p, L, fh)
\* and truncate(p, L, None) both leave the file with exactly L bytes (the
\* path-based call needs a free descriptor of its own, and fails with EMFILE
\* and changes nothing when the process has none).
C20_TruncateByHandleAndByPath ==
    \A fh \in Handles, p \in VPaths, L \in Sizes :
        IF backend = "nt"
          THEN (Writable(open_files[fh].flags) /\ SameFile(NtFullPath(p), fh)) => C20_Nt(p, fh, L)
          ELSE (Writable(fds[fh].flags) /\ SameFile(full_path(p), fh)) => C20_Func(p, fh, L)

\* C20 happens: a truncate through a registered handle left its file with
\* one byte.
C20_Witness ==
    /\ backend = "nt"
    /\ last.op = "truncate" /\ last.err = "" /\ last.sys = {"ftruncate"}
    /\ last.fh \in DOMAIN open_files
    /\ Len(data[fds[last.fh].ino]) = 1

-----------------------------------------------------------------------------
(* The HTTP server's process holds descriptors of its own (its log, its     *)
(* standard streams, its sockets), and func.py passes every fh it is given  *)
(* to the os calls. Here the process starts with descriptor 1 open on a     *)
(* file of its own, which is no file of the volume, and serves the calls    *)
(* that take a handle and the calls on directories; no open or create is    *)
(* served, so no handle is issued.                                          *)

OwnFd == [ino |-> 1, flags |-> {"O_RDWR"}, pos |-> 0]

InitOwn ==
    /\ backend = "func"
    /\ names = [n \in Nodes |-> Absent]
    /\ data = [i \in Inodes |-> <<>>]
    /\ fds = [f \in ServerFdNums |-> IF f = 1 THEN OwnFd ELSE NoFd]
    /\ open_files = <<>>
    /\ last = NoCall
    /\ NoMem
    /\ req = NoReq
    /\ resp = NoResp
    /\ cli = NoCli
    /\ threads = NoThreads

NextOwn ==
    \/ Read \/ Write \/ Flush \/ Release \/ FsyncRequest
    \/ Getattr \/ Mkdir \/ Rmdir \/ Readdir

SpecOwn == InitOwn /\ [][NextOwn]_vars

HandleOps == {"read", "write", "flush", "fsync", "release"}

\* C12: a read, write, flush, fsync or release whose fh no open or create
\* has returned is answered with an error envelope and leaves every
\* descriptor of the server process, and what it refers to, as it was.
C12_UnissuedHandleRejected ==
    [][(req'.op \in HandleOps /\ Len(req'.invoked) = 1) =>
          (resp'.status = "error" /\ fds' = fds /\ data' = data)]_vars

-----------------------------------------------------------------------------
(* A volume with directories below the root: a and c, a name b in each, and *)
(* names the Windows-NT backend reserves. Either backend serves the calls   *)
(* that make, remove, move and list names.                                  *)

TreePaths == {"/a", "/a/b", "/c", "/c/b"}
ReservedPaths == {"/con", "/COM1", "/a/Nul.txt"}
TreeNodes == {full_path(p) : p \in TreePaths \cup ReservedPaths}

\* WindowsNTPassthrough.mkdir, rmdir and readdir
NtPlain(reg, r) == Out(r.err, None, r.sys, r.st, reg)

MadeDir(fault, r) ==
    IF r.err # "" THEN r ELSE Permitted(SetPermissions(fault), r, r.st, r.reg)

MkdirAt(st, reg, full, fault) ==
    IF IsReservedName(full) THEN Out("EINVAL", None, {}, st, reg)
    ELSE MadeDir(fault, NtPlain(reg, NewObject(st, Lookup(st, full), DirNode, DeviceFault(fault))))

NtMkdir(st, reg, path, mode, fault) == MkdirAt(st, reg, NtFullPath(path), fault)

NtRmdir(st, reg, path, fault) == NtPlain(reg, rmdir(st, NtFullPath(path), fault))

NtListed(reg, r) == Out("", r.ret.content.l, {}, r.st, reg)

NtReaddir(st, reg, path, fh) == NtListed(reg, readdir(st, NtFullPath(path), fh))

TreeNtCreate ==
    \E path \in TreePaths \cup ReservedPaths, fault \in {"", AclFault} :
        NtCall("create", NtFullPath(path), NoneFh, NtCreate(Cur, open_files, path, fault))

TreeNtMkdir ==
    \E path \in TreePaths \cup ReservedPaths, fault \in Faults \cup {AclFault} :
        NtCall("mkdir", NtFullPath(path), NoneFh, NtMkdir(Cur, open_files, path, 0, fault))

TreeNtRmdir ==
    \E path \in TreePaths :
        NtCall("rmdir", NtFullPath(path), NoneFh, NtRmdir(Cur, open_files, path, ""))

TreeNtUnlink ==
    \E path \in TreePaths :
        NtCall("unlink", NtFullPath(path), NoneFh, NtUnlink(Cur, open_files, path, ""))

TreeNtRename ==
    \E old \in TreePaths, new \in TreePaths :
        NtCall("rename", NtFullPath(old), NoneFh, NtRename(Cur, open_files, old, new, ""))

TreeNtRelease ==
    \E fh \in FdNums : NtCall("release", "", fh, NtRelease(Cur, open_files, fh, ""))

TreeNtReaddir ==
    \E path \in TreePaths \cup {"/"} :
        NtCall("readdir", NtFullPath(path), NoneFh, NtReaddir(Cur, open_files, path, 0))

TreeCreate == \E p \in TreePaths : ClientCall("create", <<p, 0>>, "")

TreeMkdir == \E p \in TreePaths, fault \in Faults : ClientCall("mkdir", <<p, 0>>, fault)

TreeRmdir == \E p \in TreePaths : ClientCall("rmdir", <<p>>, "")

TreeUnlink == \E p \in TreePaths : ClientCall("unlink", <<p>>, "")

\* (old and new reach the backend function as the client wrote them)
TreeRename ==
    \E old \in TreePaths, new \in TreePaths :
        ClientCall("rename", <<full_path(old), full_path(new)>>, "")

TreeRelease == \E fh \in ServerFdNums : ClientCall("release", <<"/a", fh>>, "")

TreeReaddir == \E p \in TreePaths \cup {"/"} : ClientCall("readdir", <<p, 0>>, "")

InitTree ==
    /\ backend \in {"nt", "func"}
    /\ names = [n \in TreeNodes |-> Absent]
    /\ data = [i \in Inodes |-> <<>>]
    /\ fds = [f \in IF backend = "nt" THEN FdNums ELSE ServerFdNums |-> NoFd]
    /\ open_files = <<>>
    /\ last = NoCall
    /\ NoMem
    /\ req = NoReq
    /\ resp = NoResp
    /\ cli = NoCli
    /\ threads = NoThreads

NextTree ==
    \/ TreeNtCreate \/ TreeNtMkdir \/ TreeNtRmdir \/ TreeNtUnlink \/ TreeNtRename
    \/ TreeNtRelease \/ TreeNtReaddir
    \/ TreeCreate \/ TreeMkdir \/ TreeRmdir \/ TreeUnlink \/ TreeRename
    \/ TreeRelease \/ TreeReaddir

SpecTree == InitTree /\ [][NextTree]_vars

\* C13: in the Windows-NT backend a create or mkdir of a path whose basename
\* is a device-reserved name, in any letter case, with or without an
\* extension, raises EINVAL, creates no object and registers no handle.
C13_ReservedNameRejected ==
    [][(/\ last'.op \in {"create", "mkdir"}
        /\ last'.path \in {NtFullPath(p) : p \in ReservedPaths})
       => (/\ last'.err = "EINVAL"
           /\ UNCHANGED <<names, data, fds, open_files>>)]_vars

\* C13 happens: mkdir of Nul.txt was refused inside a directory that exists,
\* where a directory of another name could have been made.
C13_Witness ==
    /\ last.op = "mkdir" /\ last.path = "/srv/a/Nul.txt" /\ last.err = "EINVAL"
    /\ names["/srv/a"].kind = "dir"
    /\ names["/srv/a/Nul.txt"].kind = "none"

IsDir(d) == d = ROOT \/ (d \in DOMAIN names /\ names[d].kind = "dir")

Kids(dir) == {m \in DOMAIN names : names[m].kind # "none" /\ Parent(m) = dir}

LastComponent(m) == SplitPath(m, "", <<>>)[Len(SplitPath(m, "", <<>>))]

\* listing is ".", ".." and the names of the immediate children of dir, each once
C19_Lists(listing, dir) ==
    /\ Len(listing) = 2 + Cardinality(Kids(dir))
    /\ listing[1] = "." /\ listing[2] = ".."
    /\ {listing[i] : i \in 3..Len(listing)} = {LastComponent(m) : m \in Kids(dir)}

\* C19: readdir on a directory returns "." and ".." plus exactly the names
\* of the directory's immediate children, in every state that create, mkdir,
\* unlink, rmdir and rename lead to.
C19_ReaddirListsChildren ==
    /\ (backend = "nt" /\ last.op = "readdir" /\ IsDir(Resolve(last.path))) =>
          (last.err = "" /\ C19_Lists(last.ret, Resolve(last.path)))
    /\ (backend = "func" /\ req.op = "readdir" /\ Len(req.invoked) = 1
          /\ IsDir(Resolve(req.invoked[1].args["path"].s))) =>
          /\ resp.status = "success" /\ Len(resp.data) = 1
          /\ C19_Lists(resp.data[1]["content"].l, Resolve(req.invoked[1].args["path"].s))

\* C19 happens: the root was listed while the directory a held a name b, and
\* the listing is ".", ".." and "a".
C19_Witness ==
    /\ backend = "func" /\ req.op = "readdir" /\ resp.status = "success"
    /\ req.invoked[1].args["path"].s = "/srv/"
    /\ names["/srv/a"].kind = "dir" /\ names["/srv/a/b"].kind # "none"
    /\ Len(resp.data[1]["content"].l) = 3

-----------------------------------------------------------------------------
(* The Windows-NT backend under the mount's threads. main mounts it with    *)
(* nothreads=False, and neither WindowsNTPassthrough nor NtOpenFileManager  *)
(* holds a lock, so the calls of two threads interleave between the system  *)
(* call of a method and its registry statement. A thread's pc tells where   *)
(* its call stands: "opened" (os.open has returned, add is to come),        *)
(* "removing" (remove found the id, os.close is to come), "closed"          *)
(* (os.close has returned, del is to come), "io" (is_open answered True,    *)
(* the descriptor calls are to come).                                       *)

ThreadPath == "/a"

At(t, pc) == backend = "nt" /\ threads[t].pc = pc

Becomes(t, pc, fh, path, flags) ==
    threads' = [threads EXCEPT ![t] = [pc |-> pc, fh |-> fh, path |-> path, flags |-> flags,
                                       offset |-> 0, buf |-> <<>>]]

Returns(t, op, fh, err, ret, sys) ==
    /\ threads' = [threads EXCEPT ![t] = Idle]
    /\ last' = [op |-> op, path |-> "", fh |-> fh, err |-> err, ret |-> ret, sys |-> sys]

OsLeaves(st) == names' = st.names /\ data' = st.data /\ fds' = st.fds

\* the thread's os.open has returned o: the call goes on to add, or raises
OpenedBy(t, op, full, flags, o) ==
    /\ OsLeaves(o.st)
    /\ IF o.err = ""
         THEN Becomes(t, "opened", o.ret, full, flags) /\ UNCHANGED last
         ELSE Returns(t, op, NoneFh, o.err, None, {"open"})
    /\ UNCHANGED <<backend, memvars, open_files, req, resp, cli>>

\* open: fh = os.open(full_path, flags)
ThreadOpen(t) ==
    /\ At(t, "idle")
    /\ \E flags \in OpenFlags :
          \E o \in {OsOpen(Cur, NtFullPath(ThreadPath), flags, FALSE, "")} :
              OpenedBy(t, "open", NtFullPath(ThreadPath), flags, o)

\* create: os.open with O_WRONLY | O_CREAT | O_EXCL, and with O_WRONLY when
\* that raised EEXIST
ThreadCreate(t) ==
    /\ At(t, "idle")
    /\ \E o \in {OsOpen(Cur, NtFullPath(ThreadPath), {"O_WRONLY", "O_CREAT", "O_EXCL"}, FALSE, "")} :
          IF o.err = "EEXIST"
            THEN \E again \in {OsOpen(Cur, NtFullPath(ThreadPath), {"O_WRONLY"}, FALSE, "")} :
                    OpenedBy(t, "create", NtFullPath(ThreadPath), {"O_WRONLY"}, again)
            ELSE OpenedBy(t, "create", NtFullPath(ThreadPath), {"O_WRONLY", "O_CREAT"}, o)

\* open and create: self.file_manager.add(full_path, fh, flags); return fh
ThreadAdd(t) ==
    /\ At(t, "opened")
    /\ open_files' = add(open_files, threads[t].path, threads[t].fh, threads[t].flags)
    /\ Returns(t, "open", NoneFh, "", threads[t].fh, {"open"})
    /\ UNCHANGED <<backend, memvars, names, data, fds, req, resp, cli>>

\* release -> remove: if fh in self.open_files
ThreadRemove(t) ==
    /\ At(t, "idle")
    /\ \E fh \in FdNums :
          /\ fh \in DOMAIN open_files
          /\ Becomes(t, "removing", fh, "", {})
    /\ UNCHANGED <<backend, memvars, names, data, fds, open_files, last, req, resp, cli>>

\* remove: os.close(fh)
ThreadClose(t) ==
    /\ At(t, "removing")
    /\ \E c \in {OsClose(Cur, threads[t].fh, "")} :
          /\ OsLeaves(c.st)
          /\ IF c.err = ""
               THEN Becomes(t, "closed", threads[t].fh, "", {}) /\ UNCHANGED last
               ELSE Returns(t, "release", threads[t].fh, c.err, None, {"close"})
    /\ UNCHANGED <<backend, memvars, open_files, req, resp, cli>>

\* remove: self.open_files[fh]['path'] for the log, then del
\* self.open_files[fh] (a KeyError when another thread has deleted it)
ThreadDel(t) ==
    /\ At(t, "closed")
    /\ IF threads[t].fh \in DOMAIN open_files
         THEN /\ open_files' = [h \in DOMAIN open_files \ {threads[t].fh} |-> open_files[h]]
              /\ Returns(t, "release", threads[t].fh, "", None, {"close"})
         ELSE /\ UNCHANGED open_files
              /\ Returns(t, "release", threads[t].fh, "KeyError", None, {"close"})
    /\ UNCHANGED <<backend, memvars, names, data, fds, req, resp, cli>>

\* write: if not self.file_manager.is_open(fh): raise FuseOSError(EBADF)
ThreadLookup(t) ==
    /\ At(t, "idle")
    /\ \E fh \in FdNums :
          IF is_open(open_files, fh)
            THEN Becomes(t, "io", fh, "", {}) /\ UNCHANGED last
            ELSE Returns(t, "write", fh, "EBADF", None, {})
    /\ UNCHANGED <<backend, memvars, names, data, fds, open_files, req, resp, cli>>

\* write: os.lseek(fh, offset, 0); os.write(fh, data)
ThreadIo(t) ==
    /\ At(t, "io")
    /\ \E w \in {OsSeekWrite(Cur, threads[t].fh, <<1>>, 0, "")} :
          /\ OsLeaves(w.st)
          /\ Returns(t, "write", threads[t].fh, w.err, IF w.err = "" THEN w.ret ELSE None,
                     {"lseek", "write"})
    /\ UNCHANGED <<backend, memvars, open_files, req, resp, cli>>

NextThreads ==
    \E t \in Threads :
        \/ ThreadOpen(t) \/ ThreadCreate(t) \/ ThreadAdd(t)
        \/ ThreadRemove(t) \/ ThreadClose(t) \/ ThreadDel(t)
        \/ ThreadLookup(t) \/ ThreadIo(t)

SpecThreads == InitNt /\ [][NextThreads]_vars

\* C11: with concurrent calls on one Windows-NT backend, no lookup finds a
\* registry entry whose descriptor is already closed, and (once no call is
\* under way) no descriptor that os.open returned is open without a registry
\* entry, nor is an entry left for a closed descriptor.
C11_RegistryIsAUnit ==
    [][/\ \A t \in Threads :
              (threads[t].pc = "idle" /\ threads'[t].pc = "io") => IsOpenFd(Cur, threads'[t].fh)
       /\ (\A t \in Threads : threads'[t].pc = "idle") =>
              \A h \in FdNums : fds'[h] # NoFd <=> h \in DOMAIN open_files']_vars

-----------------------------------------------------------------------------
(* Reads at and past the end of the file *)

\* the bytes of content from offset up to min(offset + size, its length)
C21_Expected(content, size, offset) ==
    SubSeq(content, offset + 1, Min(offset + size, Len(content)))

C21_ReadReturns(fh, size, offset) ==
    IF backend = "nt"
      THEN /\ NtRead(Cur, open_files, size, offset, fh, "").err = ""
           /\ NtRead(Cur, open_files, size, offset, fh, "").ret
                = C21_Expected(data[fds[fh].ino], size, offset)
      ELSE /\ read(Cur, HandlePath, size, offset, fh).err = ""
           /\ read(Cur, HandlePath, size, offset, fh).ret.content
                = JBytes(C21_Expected(data[fds[fh].ino], size, offset))

\* C21: in every reachable state, for every handle that open or create
\* returned and release has not taken back, every size and every offset,
\* read(path, size, offset, fh) returns the bytes of the file from offset up
\* to min(offset + size, file size) and raises no error.
C21_ShortReadIsSuccess ==
    \A fh \in Handles, size \in Sizes, offset \in Offsets : C21_ReadReturns(fh, size, offset)

-----------------------------------------------------------------------------
(* Teardown of the Windows-NT backend *)

C22_TornDown(r) ==
    /\ r.err = ""
    /\ r.reg = <<>>
    /\ \A fd \in DOMAIN r.st.fds : r.st.fds[fd] = NoFd

-----------------------------------------------------------------------------
(* Several handles on one path *)

\* handle h is registered and its descriptor open in the outcome r
C23_Usable(r, h) == is_open(r.reg, h) /\ IsOpenFd(r.st, h)

\* releasing handle gone in the outcome r succeeds and leaves handle kept
\* as it was
C23_ReleaseSpares(r, gone, kept) ==
    /\ NtRelease(r.st, r.reg, gone, "").err = ""
    /\ ~is_open(NtRelease(r.st, r.reg, gone, "").reg, gone)
    /\ C23_Usable(NtRelease(r.st, r.reg, gone, ""), kept)
    /\ NtRelease(r.st, r.reg, gone, "").reg[kept] = r.reg[kept]
    /\ NtRelease(r.st, r.reg, gone, "").st.fds[kept] = r.st.fds[kept]

\* the outcome r of an open or create on a path that has the open handle h
C23_Second(r, h) ==
    /\ r.err = ""
    /\ r.ret \notin DOMAIN open_files
    /\ DOMAIN r.reg = DOMAIN open_files \cup {r.ret}
    /\ \A k \in DOMAIN open_files : r.reg[k] = open_files[k] /\ r.st.fds[k] = fds[k]
    /\ C23_Usable(r, h) /\ C23_Usable(r, r.ret)
    /\ C23_ReleaseSpares(r, h, r.ret)
    /\ C23_ReleaseSpares(r, r.ret, h)

\* C23: in every state of the Windows-NT backend where a path has an open
\* handle (and the process may hold one more descriptor), open and create on
\* that path succeed and return an id that no open handle has; both handles
\* are registered with their descriptors open, and the release of either
\* leaves the other registered and open.
C23_SecondHandleIsIndependent ==
    backend = "nt" =>
        \A p \in VPaths : \A h \in HandlesOf(open_files, NtFullPath(p)) :
            FreeFds(Cur) # {} =>
                /\ C23_Second(NtCreate(Cur, open_files, p, ""), h)
                /\ \A flags \in OpenFlags : C23_Second(NtOpen(Cur, open_files, p, flags, ""), h)

\* C23 happens: two handles are registered on one path, and after the
\* release of one the other was written through.
C23_Witness ==
    /\ backend = "nt"
    /\ DOMAIN open_files = {2} /\ open_files[2].path = "/srv/a"
    /\ fds[1] = NoFd /\ fds[2] # NoFd
    /\ last.op = "write" /\ last.fh = 2 /\ last.err = ""

-----------------------------------------------------------------------------
(* Binary content on the wire *)

CodecLen == 3
CodecBytes == {0, 255}
CodecContents == UNION {[1..n -> CodecBytes] : n \in 0..CodecLen}

\* text that base64.b64decode rejects (incorrect padding)
Undecodable == {"A", "AQ=", "AQ=A", "AAAAA"}

\* the write request of the client for content B reaches the backend
\* function with data B: c is what the capability call leaves
C24_WriteArrives(B, c) ==
    /\ c.posts = 1
    /\ c.re.http = 200
    /\ Len(c.re.invoked) = 1
    /\ c.re.invoked[1].args["data"] = JBytes(B)

\* the envelope re of a read that returned B carries base64 text, which the
\* client decodes to B
C24_ReadArrives(B, re) ==
    /\ re.data = <<[content |-> JStr(b64encode(B))]>>
    /\ from_dict(re).ok
    /\ from_dict(re).data = <<[content |-> JBytes(B)]>>

\* a write request whose data is text that cannot be decoded
C24_Rejected(re) == re.http = 400 /\ re.invoked = <<>> /\ re.st = Cur

-----------------------------------------------------------------------------
(* The owner's access-control entry *)

\* C25: in the Windows-NT backend the security calls of a create or mkdir
\* are made only when the call has made its object, and when they fail the
\* call still returns: the object is there, and the handle create returns is
\* registered with its descriptor open.
C25_PermissionFailureSwallowed ==
    [][(last'.op \in {"create", "mkdir"} /\ "GetFileSecurity" \in last'.sys) =>
          /\ names[last'.path].kind = "none"
          /\ names'[last'.path].kind = (IF last'.op = "create" THEN "file" ELSE "dir")
          /\ last'.err = ""
          /\ last'.op = "create" =>
                /\ last'.ret \notin DOMAIN open_files
                /\ last'.ret \in DOMAIN open_files'
                /\ open_files'[last'.ret].path = last'.path
                /\ fds'[last'.ret] # NoFd]_vars

\* C25 happens: the security calls of a create failed, and the file and its
\* registered handle are there.
C25_Witness ==
    /\ last.op = "create" /\ last.err = ""
    /\ "GetFileSecurity" \in last.sys /\ "SetFileSecurity" \notin last.sys
    /\ names[last.path].kind = "file"
    /\ last.ret \in DOMAIN open_files

-----------------------------------------------------------------------------
(* The Windows HTTP server (matrix/server/win/server.py), backend "win".    *)
(* fds is the process's table of Win32 handles; a handle's flags hold its   *)
(* access (as O_WRONLY, O_RDWR or neither) and its share mode. The module's *)
(* dictionary open_files is never written. A route answers                  *)
(* [http, status, error, data, st].                                         *)

WinHandleVals == {4, 8}       \* the values CreateFile may return
CrtDescriptors == {0, 1, 2}   \* the C runtime descriptors of the process: its standard streams

WinAnswer(http, status, error, output, st) ==
    [http |-> http, status |-> status, error |-> error, data |-> output, st |-> st]

WinFailed(err, st) == WinAnswer(500, "", JStr(err), <<>>, st)

\* whether a handle with flags held may coexist with a new one with flags asked
Shares(held, asked) ==
    /\ Writable(asked) => "SHARE_WRITE" \in held
    /\ (Readable(asked) \/ "O_RDWR" \in asked) => "SHARE_READ" \in held
    /\ Writable(held) => "SHARE_WRITE" \in asked
    /\ (Readable(held) \/ "O_RDWR" \in held) => "SHARE_READ" \in asked

SharingViolation(st, l, flags) ==
    /\ l.err = "" /\ l.kind = "file"
    /\ \E h \in DOMAIN st.fds :
          /\ st.fds[h].ino = st.names[l.node].ino
          /\ ~Shares(st.fds[h].flags, flags)

\* win32file.CreateFile(path, access, share, None, disposition, ...)
CreateFile(st, path, flags) ==
    IF SharingViolation(st, Walk(st, path), flags) THEN Raise("ERROR_SHARING_VIOLATION", st)
    ELSE OsOpen(st, path, flags, FALSE, "")

\* win32file._get_osfhandle(fd): the handle of a C runtime descriptor
HasOsfhandle(fd) == fd \in CrtDescriptors

\* create_file: CreateFile(CREATE_ALWAYS), WriteFile(buf), CloseHandle, and
\* the number of the handle in the answer
CreateAnswered(h, w) ==
    IF w.err # "" THEN WinFailed(w.err, w.st)
    ELSE WinAnswer(200, "success", JNull, <<[handle |-> JInt(h)]>>, OsClose(w.st, h, "").st)

CreateWritten(buf, o) ==
    IF o.err # "" THEN WinFailed(o.err, o.st)
    ELSE IF buf = "" THEN CreateAnswered(o.ret, Return(0, o.st))
    ELSE IF ~b64decode(buf).ok THEN WinFailed("binascii.Error", o.st)
    ELSE CreateAnswered(o.ret, OsSeekWrite(o.st, o.ret, b64decode(buf).v, 0, ""))

create_file(st, path, buf) ==
    CreateWritten(buf, CreateFile(st, full_path(path),
                                  {"O_RDWR", "O_CREAT", "O_TRUNC", "SHARE_READ", "SHARE_WRITE"}))

\* open_file: flags & os.O_RDONLY is 0, so the access is GENERIC_WRITE;
\* CreateFile(OPEN_EXISTING), LockFileEx, and the number of the handle in
\* the answer. The PyHANDLE object is dropped when the function returns, and
\* pywin32 closes a handle when its object is collected.
OpenAnswered(o, collected) ==
    IF o.err # "" THEN WinFailed(o.err, o.st)
    ELSE WinAnswer(200, "", JNull, <<[handle |-> JInt(o.ret)]>>,
                   IF collected THEN OsClose(o.st, o.ret, "").st ELSE o.st)

open_file(st, path, flags, collected) ==
    OpenAnswered(CreateFile(st, full_path(path), {"O_WRONLY", "SHARE_READ"}), collected)

\* read_file: a handle of its own on the path
ReadAnswered(size, offset, o) ==
    IF o.err # "" THEN WinFailed(o.err, o.st)
    ELSE WinAnswer(200, "", JNull,
                   <<[data |-> JStr(b64encode(OsSeekRead(o.st, o.ret, size, offset, "").ret))]>>,
                   OsClose(o.st, o.ret, "").st)

read_file(st, path, size, offset) ==
    ReadAnswered(size, offset, CreateFile(st, full_path(path), {"SHARE_READ"}))

\* write_file: the handle of the C runtime descriptor numbered fh
write_file(st, fh, buf, offset) ==
    IF ~HasOsfhandle(fh) THEN WinFailed("EBADF", st)
    ELSE WinAnswer(200, "", JNull, <<[written |-> JInt(Len(b64decode(buf).v))]>>, st)

\* truncate_file: a handle of its own on the path, shared with no other
TruncateAnswered(length, o) ==
    IF o.err # "" THEN WinFailed(o.err, o.st)
    ELSE WinAnswer(200, "success", JNull, <<>>,
                   OsClose(OsFtruncate(o.st, o.ret, length, "").st, o.ret, "").st)

truncate_file(st, path, length) ==
    TruncateAnswered(length, CreateFile(st, full_path(path), {"O_WRONLY"}))

\* flush_file and fsync_file: FlushFileBuffers on the handle of descriptor fh
flush_file(st, fh) ==
    IF ~HasOsfhandle(fh) THEN WinFailed("EBADF", st)
    ELSE WinAnswer(200, "success", JNull, <<>>, st)

\* close_file: UnlockFileEx and CloseHandle on the handle of descriptor fh
close_file(st, fh) ==
    IF ~HasOsfhandle(fh) THEN WinFailed("EBADF", st)
    ELSE WinFailed("UnlockFileEx", st)

\* one request answered by the Windows HTTP server
WinServed(op, re) ==
    /\ backend = "win"
    /\ names' = re.st.names
    /\ data' = re.st.data
    /\ fds' = re.st.fds
    /\ req' = [op |-> op, obj |-> TRUE, valid |-> TRUE, invoked |-> <<>>, raised |-> ""]
    /\ resp' = [http |-> re.http, status |-> re.status, error |-> re.error, data |-> re.data]
    /\ UNCHANGED <<backend, memvars, open_files, last, cli, threads>>

WinBufs == {"", b64encode(<<1>>), b64encode(<<0, 1>>)}

WinCreate == \E p \in VPaths, buf \in WinBufs : WinServed("create", create_file(Cur, p, buf))

WinOpen ==
    \E p \in VPaths, collected \in BOOLEAN : WinServed("open", open_file(Cur, p, {}, collected))

WinRead ==
    \E p \in VPaths, size \in Sizes, offset \in Offsets :
        WinServed("read", read_file(Cur, p, size, offset))

WinWrite ==
    \E fh \in WinHandleVals, buf \in WinBufs : WinServed("write", write_file(Cur, fh, buf, 0))

WinTruncate == \E p \in VPaths, length \in Sizes : WinServed("truncate", truncate_file(Cur, p, length))

WinFlush == \E fh \in WinHandleVals : WinServed("flush", flush_file(Cur, fh))

WinFsync == \E fh \in WinHandleVals : WinServed("fsync", flush_file(Cur, fh))

WinRelease == \E fh \in WinHandleVals : WinServed("release", close_file(Cur, fh))

InitWin ==
    /\ backend = "win"
    /\ names = [n \in Nodes |-> Absent]
    /\ data = [i \in Inodes |-> <<>>]
    /\ fds = [h \in WinHandleVals |-> NoFd]
    /\ open_files = <<>>
    /\ last = NoCall
    /\ NoMem
    /\ req = NoReq
    /\ resp = NoResp
    /\ cli = NoCli
    /\ threads = NoThreads

NextWin ==
    \/ WinCreate \/ WinOpen \/ WinRead \/ WinWrite \/ WinTruncate
    \/ WinFlush \/ WinFsync \/ WinRelease

SpecWin == InitWin /\ [][NextWin]_vars

\* the id of the answer c to an open or create names an open handle, and a
\* write, a flush and an fsync request carrying it are served on the file
\* at path
C26_Serves(path, c) ==
    c.http = 200 =>
        /\ IsOpenFd(c.st, c.data[1]["handle"].n)
        /\ write_file(c.st, c.data[1]["handle"].n, b64encode(<<1>>), 0).http = 200
        /\ Len(write_file(c.st, c.data[1]["handle"].n, b64encode(<<1>>), 0).st.data[
                 c.st.names[full_path(path)].ino]) >= 1
        /\ flush_file(c.st, c.data[1]["handle"].n).http = 200

\* C26: in every state of the Windows HTTP server, the handle id that an
\* open or create request returns stands for a handle that is open, and the
\* write, flush and fsync requests that carry the id before any release are
\* served on the file that was opened or created.
C26_HandleServesUntilRelease ==
    backend = "win" =>
        \A p \in VPaths :
            /\ C26_Serves(p, create_file(Cur, p, ""))
            /\ \A collected \in BOOLEAN : C26_Serves(p, open_file(Cur, p, {}, collected))

-----------------------------------------------------------------------------
(* rename: WindowsNTPassthrough.rename and UnixPassthrough.rename *)

\* the outcome r of a rename in the volume st left no object at node o and,
\* at node n, the object that was at o, contents included
C27_MovedTo(r, st, o, n) ==
    /\ r.err = ""
    /\ r.st.names[o].kind = "none"
    /\ r.st.names[n] = st.names[o]
    /\ st.names[o].kind = "file" => r.st.data[st.names[o].ino] = st.data[st.names[o].ino]

\* a rename of old to another name that the mount may ask for: old names an
\* object and the POSIX rename of the pair succeeds
C27_Asked(old, new) ==
    /\ old # new
    /\ names[full_path(old)].kind # "none"
    /\ OsRename(Cur, full_path(old), full_path(new), TRUE, "").err = ""

\* UnixPassthrough.rename(old, new): os.rename(old, new)
unix_rename(st, old, new) == OsRename(st, old, new, TRUE, "")

\* C27: rename(old, new) on an existing old path leaves no object at old and
\* the object that was at old at new, in the Unix backend and in the
\* Windows-NT backend, there also when old has open handles.
C27_RenameMoves ==
    \A old \in TreePaths, new \in TreePaths :
        C27_Asked(old, new) =>
            /\ C27_MovedTo(unix_rename(Cur, full_path(old), full_path(new)),
                           Cur, full_path(old), full_path(new))
            /\ backend = "nt" =>
                  C27_MovedTo(NtRename(Cur, open_files, old, new, ""),
                              Cur, NtFullPath(old), NtFullPath(new))

\* The part of C27 that holds: in the Windows-NT backend a rename of an
\* existing file, or of a directory with no open file below it, to a free
\* name moves the object, and when old has open handles they are closed and
\* unregistered first.
C27_RenameToFreeName ==
    backend = "nt" =>
        \A old \in TreePaths, new \in TreePaths :
            (/\ C27_Asked(old, new)
             /\ names[NtFullPath(new)].kind = "none"
             /\ names[NtFullPath(old)].kind = "file" \/ ~HeldUnder(Cur, NtFullPath(old))) =>
                /\ C27_MovedTo(NtRename(Cur, open_files, old, new, ""),
                               Cur, NtFullPath(old), NtFullPath(new))
                /\ HandlesOf(NtRename(Cur, open_files, old, new, "").reg, NtFullPath(old)) = {}
                /\ \A h \in HandlesOf(open_files, NtFullPath(old)) :
                      ~IsOpenFd(NtRename(Cur, open_files, old, new, "").st, h)

\* a file with an open handle was renamed to a free name
C27_FreeNameCase ==
    /\ backend = "nt"
    /\ \E old \in TreePaths, new \in TreePaths :
          /\ C27_Asked(old, new)
          /\ names[NtFullPath(new)].kind = "none"
          /\ HandlesOf(open_files, NtFullPath(old)) # {}

-----------------------------------------------------------------------------
(* link: UnixPassthrough.link *)

\* UnixPassthrough.link(target, source): os.link(target, source), and
\* os.link(src, dst) makes dst a link to the existing src
unix_link(st, target, source) == OsLink(st, Lookup(st, target), Lookup(st, source), "")

\* source names a file and target is a free name in an existing directory
C28_Linkable(target, source) ==
    /\ names[full_path(source)].kind = "file"
    /\ names[full_path(target)].kind = "none"
    /\ Lookup(Cur, full_path(target)).err = ""

\* C28: UnixPassthrough.link(target, source) with an existing file source
\* and a free name target succeeds; afterwards target names the file that
\* source names, and source and the file's contents are as they were.
C28_LinkCreatesTarget ==
    \A target \in TreePaths, source \in TreePaths :
        C28_Linkable(target, source) =>
            /\ unix_link(Cur, full_path(target), full_path(source)).err = ""
            /\ unix_link(Cur, full_path(target), full_path(source)).st.names[full_path(target)]
                  = names[full_path(source)]
            /\ unix_link(Cur, full_path(target), full_path(source)).st.names[full_path(source)]
                  = names[full_path(source)]
            /\ unix_link(Cur, full_path(target), full_path(source)).st.data = data

\* What the code does instead: with the arguments exchanged (target the
\* existing file, source the free name) the call succeeds and the new link
\* is made at source.
C28_LinkCreatesSource ==
    \A target \in TreePaths, source \in TreePaths :
        C28_Linkable(source, target) =>
            /\ unix_link(Cur, full_path(target), full_path(source)).err = ""
            /\ unix_link(Cur, full_path(target), full_path(source)).st.names[full_path(source)]
                  = names[full_path(target)]
            /\ unix_link(Cur, full_path(target), full_path(source)).st.names[full_path(target)]
                  = names[full_path(target)]

-----------------------------------------------------------------------------
(* Timestamps: utimens and getattr of either backend. The mount hands       *)
(* utimens the times of the caller's timespec pair, seconds with their      *)
(* fraction.                                                                *)

TimeVals == {0, 1000, 1500, 2000}
TimePairs == {<<a, m>> : a \in TimeVals, m \in TimeVals}

\* int(t) of a time in seconds
IntOf(t) == (t \div 1000) * 1000

\* WindowsNTPassthrough.getattr
NtStat(st, reg, l) ==
    IF ~Exists(l) THEN Out("ENOENT", None, {"lstat"}, st, reg)
    ELSE Out("", [st_size |-> SizeOf(st, l.node),
                  st_atime |-> IntOf(TimeOf(st, l.node).atime),
                  st_mtime |-> IntOf(TimeOf(st, l.node).mtime)], {"lstat"}, st, reg)

NtGetattr(st, reg, path, fh) == NtStat(st, reg, Lookup(st, NtFullPath(path)))

\* WindowsNTPassthrough.utimens: SetFileTime on a handle of its own with
\* int(atime) and int(mtime), or os.utime(full_path, None). CreateFile opens
\* an existing file only; its error is no OSError.
NtSetFileTime(st, reg, times, l) ==
    IF ~Exists(l) \/ l.kind # "file" THEN Out("pywintypes.error", None, {"CreateFile"}, st, reg)
    ELSE Out("", None, {"CreateFile", "SetFileTime", "CloseHandle"},
             OsUtimeAt(st, <<IntOf(times[1]), IntOf(times[2])>>, "", l).st, reg)

NtTouched(reg, r) == Out(r.err, None, {"utime"}, r.st, reg)

NtUtimens(st, reg, path, times, fault) ==
    IF times # <<>> THEN NtSetFileTime(st, reg, times, Lookup(st, NtFullPath(path)))
    ELSE NtTouched(reg, OsUtime(st, NtFullPath(path), <<>>, fault))

TimesPath == "/a"

TimesNtCreate == NtCall("create", NtFullPath(TimesPath), NoneFh, NtCreate(Cur, open_files, TimesPath, ""))

TimesNtUnlink == NtCall("unlink", NtFullPath(TimesPath), NoneFh, NtUnlink(Cur, open_files, TimesPath, ""))

TimesNtUtimens ==
    \E times \in TimePairs \cup {<<>>} :
        NtCall("utimens", NtFullPath(TimesPath), NoneFh, NtUtimens(Cur, open_files, TimesPath, times, ""))

TimesNtGetattr ==
    NtCall("getattr", NtFullPath(TimesPath), NoneFh, NtGetattr(Cur, open_files, TimesPath, NoneFh))

TimesCreate == ClientCall("create", <<TimesPath, 0>>, "")

TimesUnlink == ClientCall("unlink", <<TimesPath>>, "")

TimesUtimens == \E times \in TimePairs \cup {<<>>} : ClientCall("utimens", <<TimesPath, times>>, "")

TimesGetattr == ClientCall("getattr", <<TimesPath, NoneFh>>, "")

InitTimes ==
    /\ backend \in {"nt", "func"}
    /\ names = [n \in Nodes |-> Absent]
    /\ data = [i \in Inodes |-> <<>>]
    /\ fds = [f \in IF backend = "nt" THEN FdNums ELSE ServerFdNums |-> NoFd]
    /\ open_files = <<>>
    /\ last = NoCall
    /\ NoMem
    /\ req = NoReq
    /\ resp = NoResp
    /\ cli = NoCli
    /\ threads = NoThreads

NextTimes ==
    \/ TimesNtCreate \/ TimesNtUnlink \/ TimesNtUtimens \/ TimesNtGetattr
    \/ TimesCreate \/ TimesUnlink \/ TimesUtimens \/ TimesGetattr

SpecTimes == InitTimes /\ [][NextTimes]_vars

\* the Windows-NT backend sets the pair t and reads it back
C29_NtReadsBack(u, t) ==
    /\ u.err = ""
    /\ NtGetattr(u.st, u.reg, TimesPath, NoneFh).err = ""
    /\ NtGetattr(u.st, u.reg, TimesPath, NoneFh).ret.st_atime = t[1]
    /\ NtGetattr(u.st, u.reg, TimesPath, NoneFh).ret.st_mtime = t[2]

\* the answer g to the client's getattr carries the pair t
C29_Carries(g, t) ==
    /\ g.exc = "" /\ g.re.data # <<>>
    /\ g.re.data[1].st_atime.n = t[1]
    /\ g.re.data[1].st_mtime.n = t[2]

\* the client sets the pair t through the server and reads it back
C29_ClientReadsBack(u, t) ==
    /\ u.posts = 1 /\ u.exc = ""
    /\ C29_Carries(HttpFS("getattr", Kwargs("getattr", <<TimesPath, NoneFh>>), u.st, ""), t)

\* C29: wherever the file exists, a pair (atime, mtime) set with utimens is
\* read back with getattr equal to the millisecond: in the Windows-NT
\* backend, and from the client through the request schema, the served
\* backend function and the response schema.
C29_TimesRoundTrip ==
    names[full_path(TimesPath)].kind = "file" =>
        \A t \in TimePairs :
            IF backend = "nt"
              THEN C29_NtReadsBack(NtUtimens(Cur, open_files, TimesPath, t, ""), t)
              ELSE C29_ClientReadsBack(HttpFS("utimens", Kwargs("utimens", <<TimesPath, t>>), Cur, ""), t)

\* The part of C29 that holds: a pair of whole seconds is read back as set.
C29_WholeSecondsRoundTrip ==
    names[full_path(TimesPath)].kind = "file" =>
        \A t \in TimePairs :
            (IsWholeSeconds(t[1]) /\ IsWholeSeconds(t[2])) =>
                IF backend = "nt"
                  THEN C29_NtReadsBack(NtUtimens(Cur, open_files, TimesPath, t, ""), t)
                  ELSE C29_ClientReadsBack(HttpFS("utimens", Kwargs("utimens", <<TimesPath, t>>), Cur, ""), t)

-----------------------------------------------------------------------------
(* Unregistering a handle: NtOpenFileManager.remove *)

\* the errno names the model's os.close raises
CloseErrors == {"EBADF", "EIO"}

\* the id h is that of a descriptor os.open has just returned to a call that
\* has not registered it yet
C30_NotYetAdded(h) == \E t \in Threads : threads[t].pc = "opened" /\ threads[t].fh = h

\* C30: under concurrent calls, whenever an entry leaves the registry the
\* descriptor of its id is closed (or newly opened and yet to be
\* registered), and a remove whose close fails keeps the
\* registry as it was and raises the OS error: in no state is an entry gone
\* while its descriptor is still open.
C30_EntryGoesAfterClose ==
    [][/\ \A h \in DOMAIN open_files \ DOMAIN open_files' :
             fds'[h] = NoFd \/ C30_NotYetAdded(h)
       /\ \A t \in Threads :
             (threads[t].pc = "removing" /\ threads'[t].pc = "idle") =>
                 (last'.err \in CloseErrors /\ open_files' = open_files)]_vars

\* The part of C30 that holds: when the calls come one at a time, a release
\* of a registered handle closes the descriptor and then drops the entry, or
\* keeps the entry and raises the error of the close; and every entry that
\* leaves the registry leaves a closed descriptor.
C30_OneAtATime ==
    [][/\ \A h \in DOMAIN open_files \ DOMAIN open_files' : fds'[h] = NoFd
       /\ (last'.op = "release" /\ last'.fh \in DOMAIN open_files) =>
             IF last'.err = ""
               THEN /\ fds'[last'.fh] = NoFd
                    /\ last'.fh \notin DOMAIN open_files'
                    /\ "close" \in last'.sys
               ELSE /\ last'.err \in CloseErrors
                    /\ open_files' = open_files
                    /\ fds' = fds]_vars

\* a release failed in its close and the entry is still registered
C30_FailedCloseCase ==
    /\ last.op = "release" /\ last.err = "EIO"
    /\ last.fh \in DOMAIN open_files

-----------------------------------------------------------------------------
(* create on a path that names a file already *)

\* the outcome r of a create on the existing file at full
C31_OpenedAsItWas(r, full) ==
    /\ r.err = ""
    /\ r.ret \notin DOMAIN open_files
    /\ r.reg = add(open_files, full, r.ret, {"O_WRONLY"})
    /\ r.reg[r.ret].flags = {"O_WRONLY"}
    /\ r.st.fds[r.ret] = [ino |-> names[full].ino, flags |-> {"O_WRONLY"}, pos |-> 0]
    /\ r.st.names = names
    /\ r.st.data = data
    /\ \A size \in Sizes, offset \in Offsets :
          NtRead(r.st, r.reg, size, offset, r.ret, "").err = "EBADF"

\* C31: in every state of the Windows-NT backend where a path names a file
\* (and the process may hold one more descriptor), create on it raises
\* nothing, returns a new write-only descriptor on that file, registered
\* under the path with flags O_WRONLY, and leaves every name and every
\* file's content as it was.
C31_CreateOnExistingKeeps ==
    backend = "nt" =>
        \A p \in VPaths :
            (/\ NtFullPath(p) \in DOMAIN names
             /\ names[NtFullPath(p)].kind = "file"
             /\ FreeFds(Cur) # {}) =>
                C31_OpenedAsItWas(NtCreate(Cur, open_files, p, ""), NtFullPath(p))

\* C31 happens: the last call was a create on a file that had content; its
\* handle is registered with O_WRONLY alone and the content is still there.
C31_Witness ==
    /\ last.op = "create" /\ last.err = ""
    /\ last.ret \in DOMAIN open_files
    /\ open_files[last.ret].flags = {"O_WRONLY"}
    /\ names[last.path].kind = "file"
    /\ Len(data[names[last.path].ino]) > 0

-----------------------------------------------------------------------------
(* The registry and the descriptor table, one call at a time *)

\* the registered ids are the open descriptors
C32_KeysAreOpen(reg, table) == \A h \in DOMAIN table : table[h] # NoFd <=> h \in DOMAIN reg

\* C32: after every call of a sequential run of the Windows-NT backend the
\* registry's ids are exactly the open descriptors; an open or create that
\* raises leaves registry and descriptors as they were, and one that returns
\* adds the id it returns, which was not registered, and changes no other
\* descriptor.
C32_RegistryIsOpenSet ==
    [][backend = "nt" =>
       /\ C32_KeysAreOpen(open_files', fds')
       /\ last'.op \in {"open", "create"} =>
             IF last'.err # ""
               THEN open_files' = open_files /\ fds' = fds
               ELSE /\ last'.ret \notin DOMAIN open_files
                    /\ DOMAIN open_files' = DOMAIN open_files \cup {last'.ret}
                    /\ fds[last'.ret] = NoFd
                    /\ \A h \in DOMAIN fds \ {last'.ret} :
                          fds'[h] = fds[h] /\ (h \in DOMAIN open_files => open_files'[h] = open_files[h])]_vars

\* C32 happens: with a handle registered, an open or create has failed, and
\* the registry still holds exactly the open descriptors.
C32_Witness ==
    /\ last.op \in {"open", "create"} /\ last.err # ""
    /\ DOMAIN open_files # {}
    /\ C32_KeysAreOpen(open_files, fds)

-----------------------------------------------------------------------------
(* unlink and rename that fail in the system call *)

\* C33: in the Windows-NT backend an unlink or rename that raises (its
\* os.unlink or os.rename failed) leaves the registry as it was, and every
\* handle that was registered still has its descriptor open.
C33_FailedCallKeepsHandles ==
    [][(backend = "nt" /\ last'.op \in {"unlink", "rename"} /\ last'.err # "") =>
          /\ open_files' = open_files
          /\ \A h \in DOMAIN open_files : fds'[h] = fds[h]]_vars

\* What the code does instead: the handles registered under the path are
\* closed and unregistered whether the system call then succeeds or not.
C33_HandlesOfPathAreClosed ==
    [][(backend = "nt" /\ last'.op \in {"unlink", "rename"}) =>
          \A h \in HandlesOf(open_files, last'.path) :
              h \notin DOMAIN open_files' /\ fds'[h] = NoFd]_vars

-----------------------------------------------------------------------------
(* Concurrent reads and writes on the handles of one file. read and write   *)
(* are two system calls each, os.lseek and then os.read or os.write, and    *)
(* the mount runs its calls on several threads: every system call is a step *)
(* of its own. Handles are opened and never released here.                  *)

SeekOffsets == {0, 1}
SeekBufs == {<<1>>}
SeekSize == 1

\* the thread has sought to offset on fh and goes on to its transfer
Sought(t, pc, fh, offset, b) ==
    threads' = [threads EXCEPT ![t] = [pc |-> pc, fh |-> fh, path |-> "", flags |-> {},
                                       offset |-> offset, buf |-> b]]

\* read and write: the is_open check, then os.lseek(fh, offset, 0)
ThreadSeek(t, op, pc, b) ==
    /\ At(t, "idle")
    /\ \E fh \in FdNums, offset \in SeekOffsets :
          IF is_open(open_files, fh) /\ IsOpenFd(Cur, fh)
            THEN /\ OsLeaves(OsLseek(Cur, fh, offset))
                 /\ Sought(t, pc, fh, offset, b)
                 /\ UNCHANGED last
            ELSE /\ Returns(t, op, fh, "EBADF", None, {})
                 /\ UNCHANGED <<names, data, fds>>
    /\ UNCHANGED <<backend, memvars, open_files, req, resp, cli>>

ThreadSeekRead(t) == ThreadSeek(t, "read", "reading", <<>>)

ThreadSeekWrite(t) == \E b \in SeekBufs : ThreadSeek(t, "write", "writing", b)

\* the system call of the transfer has returned r
Transferred_by(t, op, r) ==
    /\ OsLeaves(r.st)
    /\ Returns(t, op, threads[t].fh, r.err, IF r.err = "" THEN r.ret ELSE None, {"lseek", op})
    /\ UNCHANGED <<backend, memvars, open_files, req, resp, cli>>

\* read: data = os.read(fh, size)
ThreadRead(t) ==
    /\ At(t, "reading")
    /\ Transferred_by(t, "read",
                      IF Readable(fds[threads[t].fh].flags) THEN OsRead(Cur, threads[t].fh, SeekSize)
                      ELSE Raise("EBADF", Cur))

\* write: bytes_written = os.write(fh, data)
ThreadWrite(t) ==
    /\ At(t, "writing")
    /\ Transferred_by(t, "write",
                      IF Writable(fds[threads[t].fh].flags) THEN OsWrite(Cur, threads[t].fh, threads[t].buf)
                      ELSE Raise("EBADF", Cur))

NextSeek ==
    \E t \in Threads :
        \/ ThreadOpen(t) \/ ThreadCreate(t) \/ ThreadAdd(t)
        \/ ThreadSeekRead(t) \/ ThreadRead(t)
        \/ ThreadSeekWrite(t) \/ ThreadWrite(t)

SpecSeek == InitNt /\ [][NextSeek]_vars

\* the bytes of content that a read of SeekSize at offset returns
C34_BytesAt(content, offset) == SubSeq(content, offset + 1, Min(offset + SeekSize, Len(content)))

\* C34: with concurrent calls on the handles of a file, every read that
\* returns has read the bytes at the offset it asked for, and every write
\* that returns (on a handle without O_APPEND) has put its bytes at the
\* offset it asked for and changed nothing else of the file.
C34_TransferAtOwnOffset ==
    [][\A t \in Threads :
          /\ (threads[t].pc = "reading" /\ threads'[t].pc = "idle" /\ last'.err = "") =>
                last'.ret = C34_BytesAt(data[fds[threads[t].fh].ino], threads[t].offset)
          /\ (/\ threads[t].pc = "writing" /\ threads'[t].pc = "idle" /\ last'.err = ""
              /\ "O_APPEND" \notin fds[threads[t].fh].flags) =>
                data'[fds[threads[t].fh].ino]
                  = Splice(data[fds[threads[t].fh].ino], threads[t].offset,
                           SubSeq(threads[t].buf, 1, last'.ret))]_vars

-----------------------------------------------------------------------------
(* symlink: the served backend function and UnixPassthrough.symlink. The    *)
(* mount calls symlink(location, content): the path of the new link, then   *)
(* the text the link holds.                                                 *)

\* UnixPassthrough.symlink(target, source): os.symlink(source, target), and
\* os.symlink(src, dst) makes at dst a link that holds src
unix_symlink(st, target, source) == NewObject(st, Lookup(st, target), LinkNode(source), "")

\* HttpFS.symlink(name, target) called by the mount with (location, content)
client_symlink(st, location, content) ==
    HttpFS("symlink", Kwargs("symlink", <<location, content>>), st, "")

TreeFullPaths == {full_path(p) : p \in TreePaths}

\* in the volume st a link at location holds content
C35_LinkAt(st, location, content) ==
    /\ st.names[location] = LinkNode(content)
    /\ readlink(st, location).err = ""
    /\ readlink(st, location).ret.destination_path = JStr(content)

\* C35: for every free location in an existing directory and every content,
\* the client's symlink through the served function and
\* UnixPassthrough.symlink both succeed and leave, at the location, a link
\* whose readlink is the content.
C35_SymlinksAgree ==
    \A location \in TreeFullPaths, content \in TreeFullPaths :
        (/\ location # content
         /\ names[location].kind = "none"
         /\ Lookup(Cur, location).err = "") =>
            /\ unix_symlink(Cur, location, content).err = ""
            /\ C35_LinkAt(unix_symlink(Cur, location, content).st, location, content)
            /\ client_symlink(Cur, location, content).exc = ""
            /\ C35_LinkAt(client_symlink(Cur, location, content).st, location, content)

\* The part of C35 that holds: UnixPassthrough.symlink makes the link at the
\* location with the content.
C35_UnixSymlink ==
    \A location \in TreeFullPaths, content \in TreeFullPaths :
        (names[location].kind = "none" /\ Lookup(Cur, location).err = "") =>
            /\ unix_symlink(Cur, location, content).err = ""
            /\ C35_LinkAt(unix_symlink(Cur, location, content).st, location, content)

\* What the served function does instead: when the content names a free
\* path, the link is made there and holds the location.
C35_ServedSymlinkIsExchanged ==
    \A location \in TreeFullPaths, content \in TreeFullPaths :
        (names[content].kind = "none" /\ Lookup(Cur, content).err = "") =>
            /\ client_symlink(Cur, location, content).exc = ""
            /\ C35_LinkAt(client_symlink(Cur, location, content).st, content, location)

-----------------------------------------------------------------------------
(* The file objects of the in-memory filesystem (win_tests/obj)             *)

allocation_unit == 2    \* FileObj.allocation_unit, 4096 in the source
MaxFileSize == 4        \* sizes and offsets the callers ask for
FileBufs == {<<>>, <<1>>, <<2>>, <<1, 2>>, <<2, 1, 1>>}
FileSizes == 0..MaxFileSize
FileTimes == {1, 2}     \* the values filetime_now() returns

Max(a, b) == IF a > b THEN a ELSE b

\* seq[a:b] of a bytearray or bytes
Slice(seq, a, b) == SubSeq(seq, Min(a, Len(seq)) + 1, Min(b, Len(seq)))

\* seq[a:b] = buf of a bytearray: the slice, clipped to the array, is taken
\* out and buf is put in its place
SliceAssign(seq, a, b, buf) ==
    LET lo == Min(a, Len(seq))
        hi == Max(lo, Min(b, Len(seq)))
    IN SubSeq(seq, 1, lo) \o buf \o SubSeq(seq, hi + 1, Len(seq))

NoObj == [kind |-> "none", path |-> <<>>, attributes |-> {}, security_descriptor |-> "",
          creation_time |-> 0, last_access_time |-> 0, last_write_time |-> 0, change_time |-> 0,
          content |-> <<>>, file_size |-> 0]

\* BaseFileObj.__init__
BaseFileObj(kind, path, attributes, security_descriptor, now) ==
    [kind |-> kind, path |-> path, attributes |-> attributes, security_descriptor |-> security_descriptor,
     creation_time |-> now, last_access_time |-> now, last_write_time |-> now, change_time |-> now,
     content |-> <<>>, file_size |-> 0]

\* FileObj.__init__: the field content is self.data
FileObj(path, attributes, security_descriptor, allocation_size, now) ==
    [BaseFileObj("file", path, attributes \cup {"ARCHIVE"}, security_descriptor, now)
        EXCEPT !.content = Zeros(allocation_size)]

\* FolderObj.__init__
FolderObj(path, attributes, security_descriptor, now) ==
    BaseFileObj("folder", path, attributes, security_descriptor, now)

allocation_size(o) == Len(o.content)

FileObj_set_allocation_size(o, size) ==
    LET cut == IF size < allocation_size(o) THEN Slice(o.content, 0, size) ELSE o.content
        grown == IF size > Len(cut) THEN cut \o Zeros(size - Len(cut)) ELSE cut
    IN [o EXCEPT !.content = grown, !.file_size = Min(o.file_size, size)]

FileObj_adapt_allocation_size(o, file_size) ==
    FileObj_set_allocation_size(o, ((file_size + allocation_unit - 1) \div allocation_unit) * allocation_unit)

\* a set_file_size that leaves the bytes it cuts off
FileObj_set_file_size_keeping(o, file_size) ==
    LET adapted == IF file_size > allocation_size(o)
                     THEN FileObj_adapt_allocation_size(o, file_size)
                     ELSE o
    IN [adapted EXCEPT !.file_size = file_size]

FileObj_set_file_size(o, file_size) ==
    LET zeroed == IF file_size < o.file_size
                    THEN [o EXCEPT !.content = SliceAssign(o.content, file_size, o.file_size,
                                                           Zeros(o.file_size - file_size))]
                    ELSE o
        adapted == IF file_size > allocation_size(zeroed)
                     THEN FileObj_adapt_allocation_size(zeroed, file_size)
                     ELSE zeroed
    IN [adapted EXCEPT !.file_size = file_size]

\* [status, ret]: NTStatusEndOfFile or the bytes
FileObj_read(o, offset, length) ==
    IF offset >= o.file_size THEN [status |-> "EndOfFile", ret |-> <<>>]
    ELSE [status |-> "", ret |-> Slice(o.content, offset, Min(o.file_size, offset + length))]

\* [obj, ret]: the object afterwards and the length returned
FileObj_write(o, buffer, offset, write_to_end_of_file) ==
    LET at == IF write_to_end_of_file THEN o.file_size ELSE offset
        end_offset == at + Len(buffer)
        sized == IF end_offset > o.file_size THEN FileObj_set_file_size(o, end_offset) ELSE o
    IN [obj |-> [sized EXCEPT !.content = SliceAssign(sized.content, at, end_offset, buffer)],
        ret |-> Len(buffer)]

FileObj_constrained_write(o, buffer, offset) ==
    IF offset >= o.file_size THEN [obj |-> o, ret |-> 0]
    ELSE LET end_offset == Min(o.file_size, offset + Len(buffer))
             transferred_length == end_offset - offset
         IN [obj |-> [o EXCEPT !.content = SliceAssign(o.content, offset, end_offset,
                                                       Slice(buffer, 0, transferred_length))],
             ret |-> transferred_length]

\* One file object, called directly. written is what a file holds by
\* definition: the byte last written at each position below the file size,
\* zero where nothing was written since the position came to be.
TheFile == 1
FilePath == <<"a">>

WrittenAt(old, size, at, buffer) ==
    [i \in 1..size |-> IF i > at /\ i <= at + Len(buffer) THEN buffer[i - at]
                       ELSE IF i <= Len(old) THEN old[i] ELSE 0]

FileCalled(op, o, ret, w) ==
    /\ objs' = [objs EXCEPT ![TheFile] = o]
    /\ written' = w
    /\ result' = [op |-> op, status |-> "", ret |-> ret]
    /\ UNCHANGED <<backend, names, data, fds, open_files, last, req, resp, cli, threads,
                   read_only, entries, thread_lock, callers>>

FileWrite ==
    \E buffer \in FileBufs, offset \in FileSizes, write_to_end_of_file \in BOOLEAN :
        LET at == IF write_to_end_of_file THEN Len(written) ELSE offset
            w == FileObj_write(objs[TheFile], buffer, offset, write_to_end_of_file)
        IN /\ at + Len(buffer) <= MaxFileSize
           /\ FileCalled("write", w.obj, w.ret,
                         WrittenAt(written, Max(Len(written), at + Len(buffer)), at, buffer))

FileConstrainedWrite ==
    \E buffer \in FileBufs, offset \in FileSizes :
        LET w == FileObj_constrained_write(objs[TheFile], buffer, offset)
        IN FileCalled("constrained_write", w.obj, w.ret,
                      WrittenAt(written, Len(written), offset, buffer))

FileSetFileSize ==
    \E size \in FileSizes :
        FileCalled("set_file_size", FileObj_set_file_size(objs[TheFile], size), None,
                   WrittenAt(written, size, 0, <<>>))

FileSetAllocationSize ==
    \E size \in FileSizes :
        FileCalled("set_allocation_size", FileObj_set_allocation_size(objs[TheFile], size), None,
                   WrittenAt(written, Min(Len(written), size), 0, <<>>))

FileAdaptAllocationSize ==
    \E size \in FileSizes :
        FileCalled("adapt_allocation_size", FileObj_adapt_allocation_size(objs[TheFile], size), None,
                   WrittenAt(written,
                             Min(Len(written), ((size + allocation_unit - 1) \div allocation_unit) * allocation_unit),
                             0, <<>>))

FileRead ==
    \E offset \in FileSizes, length \in FileSizes :
        \E r \in {FileObj_read(objs[TheFile], offset, length)} :
            /\ result' = [op |-> "read", status |-> r.status, ret |-> r.ret,
                          offset |-> offset, length |-> length]
            /\ UNCHANGED <<backend, names, data, fds, open_files, last, req, resp, cli, threads,
                           read_only, entries, objs, thread_lock, callers, written>>

InitFile ==
    /\ backend = "mem"
    /\ names = <<>> /\ data = <<>> /\ fds = <<>> /\ open_files = <<>>
    /\ last = NoCall /\ req = NoReq /\ resp = NoResp /\ cli = NoCli /\ threads = <<>>
    /\ read_only = FALSE
    /\ entries = <<>>
    /\ \E size \in {0, allocation_unit} :
          objs = [o \in {TheFile} |-> FileObj(FilePath, {}, "", size, 1)]
    /\ thread_lock = 0
    /\ callers = <<>>
    /\ result = [op |-> "", status |-> "", ret |-> None]
    /\ written = <<>>

NextFile ==
    \/ FileWrite \/ FileConstrainedWrite \/ FileSetFileSize
    \/ FileSetAllocationSize \/ FileAdaptAllocationSize \/ FileRead

SpecFile == InitFile /\ [][NextFile]_vars

\* C37: after any sequence of write, constrained_write, set_file_size,
\* set_allocation_size and adapt_allocation_size on a file object, file_size
\* is at most allocation_size, the length of the data buffer, and every
\* read(offset, length) with offset below file_size returns exactly the bytes
\* last written in [offset, min(file_size, offset + length)).
C37_SizeWithinAllocationAndReadsWritten ==
    /\ objs[TheFile].file_size <= allocation_size(objs[TheFile])
    /\ objs[TheFile].file_size = Len(written)
    /\ \A offset \in FileSizes, length \in FileSizes :
          offset < objs[TheFile].file_size =>
             /\ FileObj_read(objs[TheFile], offset, length).status = ""
             /\ FileObj_read(objs[TheFile], offset, length).ret =
                   SubSeq(written, offset + 1, Min(Len(written), offset + length))

\* C37 happens: a read of three bytes returned the byte written at offset 0
\* and the zeros of the part no write reached, from a file whose allocation
\* is larger than its size.
C37_Witness ==
    /\ result.op = "read" /\ result.status = ""
    /\ result.offset = 0 /\ result.length = 3
    /\ result.ret = <<2, 0, 0>>
    /\ allocation_size(objs[TheFile]) > objs[TheFile].file_size

-----------------------------------------------------------------------------
(* The in-memory filesystem (win_tests/fs/in_memory.py). A path is the      *)
(* sequence of its components below the root; _entries is a dict, kept here *)
(* as the sequence of its items in the order the dict holds them. A file    *)
(* context is the object an open or create returned, which may since have   *)
(* left the entry table.                                                    *)

MemNames == {"a", "d"}
MemDepth == 2
MaxObjs == 3
MemPaths == UNION {[1..n -> MemNames] : n \in 0..MemDepth}
ObjIds == 1..MaxObjs
RootObj == 1
root_path == <<>>
RootSecurity == "O:BAG:BAD:P(A;;FA;;;SY)(A;;FA;;;BA)(A;;FA;;;WD)"

\* PureWindowsPath.parent: the root is its own parent
parent(path) == IF path = <<>> THEN <<>> ELSE SubSeq(path, 1, Len(path) - 1)

\* entry_path.relative_to(base) raises no ValueError
IsRelativeTo(path, base) == Len(path) >= Len(base) /\ SubSeq(path, 1, Len(base)) = base

relative_to(path, base) == SubSeq(path, Len(base) + 1, Len(path))

\* the dict _entries
Has(e, path) == \E i \in 1..Len(e) : e[i].path = path
Get(e, path) == e[CHOOSE i \in 1..Len(e) : e[i].path = path].obj
Put(e, path, o) ==
    IF Has(e, path)
      THEN [i \in 1..Len(e) |-> IF e[i].path = path THEN [path |-> path, obj |-> o] ELSE e[i]]
      ELSE Append(e, [path |-> path, obj |-> o])
Del(e, path) == SelectSeq(e, LAMBDA x : x.path # path)
Keys(e) == [i \in 1..Len(e) |-> e[i].path]

\* the filesystem as the operations see it
Fs == [entries |-> entries, objs |-> objs]

Fails(status, st) == [status |-> status, ret |-> None, st |-> st]
Succeeds(ret, st) == [status |-> "", ret |-> ret, st |-> st]

IsFile(st, o) == st.objs[o].kind = "file"

\* the object a constructor call makes gets the lowest unused place
NewObj(st) == CHOOSE o \in ObjIds : st.objs[o].kind = "none" /\ \A k \in 1..(o - 1) : st.objs[k].kind # "none"
HasRoom(st) == \E o \in ObjIds : st.objs[o].kind = "none"

\* InMemoryFileSystemOperations.__init__
Constructed(ro) ==
    /\ read_only = ro
    /\ entries = <<[path |-> root_path, obj |-> RootObj]>>
    /\ objs = [o \in ObjIds |-> IF o = RootObj THEN FolderObj(root_path, {"DIRECTORY"}, RootSecurity, 1)
                                ELSE NoObj]
    /\ thread_lock = 0

\* _create_directory(path)
InMemory_create_directory(st, path, now) ==
    [entries |-> Put(st.entries, path, NewObj(st)),
     objs |-> [st.objs EXCEPT ![NewObj(st)] =
                  FolderObj(path, {"DIRECTORY"}, st.objs[RootObj].security_descriptor, now)]]

\* _import_files(file_path): name is file_path.name, bytes what the file holds
InMemory_import_files(st, name, bytes, now) ==
    [entries |-> Put(st.entries, <<name>>, NewObj(st)),
     objs |-> [st.objs EXCEPT ![NewObj(st)] =
                  FileObj_write(FileObj(<<name>>, {"ARCHIVE"}, st.objs[RootObj].security_descriptor, 0, now),
                                bytes, 0, FALSE).obj]]

InMemory_create(st, ro, file_name, directory, file_attributes, security_descriptor, size, now) ==
    IF ro THEN Fails("MediaWriteProtected", st)
    ELSE IF ~Has(st.entries, parent(file_name)) THEN Fails("ObjectNameNotFound", st)
    ELSE IF IsFile(st, Get(st.entries, parent(file_name))) THEN Fails("NotADirectory", st)
    ELSE IF Has(st.entries, file_name) THEN Fails("ObjectNameCollision", st)
    ELSE IF directory # ("DIRECTORY" \in file_attributes) THEN Fails("AssertionError", st)
    ELSE Succeeds(NewObj(st),
                  [entries |-> Put(st.entries, file_name, NewObj(st)),
                   objs |-> [st.objs EXCEPT ![NewObj(st)] =
                                IF directory
                                  THEN FolderObj(file_name, file_attributes, security_descriptor, now)
                                  ELSE FileObj(file_name, file_attributes, security_descriptor, size, now)]])

InMemory_set_security(st, ro, file_context, modification_descriptor) ==
    IF ro THEN Fails("MediaWriteProtected", st)
    ELSE Succeeds(None, [st EXCEPT !.objs[file_context].security_descriptor = modification_descriptor])

\* rename's loop over list(self._entries): the entries at and below file_name
\* are popped and stored again under new_file_name, one after the other
RECURSIVE MovedEntries(_, _, _, _)
MovedEntries(st, snapshot, file_name, new_file_name) ==
    IF snapshot = <<>> THEN Succeeds(None, st)
    ELSE IF ~IsRelativeTo(Head(snapshot), file_name)
      THEN MovedEntries(st, Tail(snapshot), file_name, new_file_name)
    ELSE IF ~Has(st.entries, Head(snapshot)) THEN Fails("KeyError", st)
    ELSE LET new_entry_path == new_file_name \o relative_to(Head(snapshot), file_name)
             entry == Get(st.entries, Head(snapshot))
         IN MovedEntries([entries |-> Put(Del(st.entries, Head(snapshot)), new_entry_path, entry),
                     objs |-> [st.objs EXCEPT ![entry].path = new_entry_path]],
                    Tail(snapshot), file_name, new_file_name)

InMemory_rename(st, ro, file_name, new_file_name, replace_if_exists) ==
    IF ro THEN Fails("MediaWriteProtected", st)
    ELSE IF ~Has(st.entries, file_name) THEN Fails("ObjectNameNotFound", st)
    ELSE IF Has(st.entries, new_file_name) /\ ~replace_if_exists THEN Fails("ObjectNameCollision", st)
    ELSE IF Has(st.entries, new_file_name) /\ ~IsFile(st, Get(st.entries, file_name))
      THEN Fails("AccessDenied", st)
    ELSE MovedEntries(st, Keys(st.entries), file_name, new_file_name)

InMemory_set_basic_info(st, ro, file_context, file_attributes, creation_time, last_access_time, last_write_time, change_time) ==
    IF ro THEN Fails("MediaWriteProtected", st)
    ELSE LET o == st.objs[file_context]
             set == [o EXCEPT
                       !.attributes = IF file_attributes # {"INVALID"} THEN file_attributes ELSE @,
                       !.creation_time = IF creation_time # 0 THEN creation_time ELSE @,
                       !.last_access_time = IF last_access_time # 0 THEN last_access_time ELSE @,
                       !.last_write_time = IF last_write_time # 0 THEN last_write_time ELSE @,
                       !.change_time = IF change_time # 0 THEN change_time ELSE @]
         IN Succeeds(None, [st EXCEPT !.objs[file_context] = set])

InMemory_set_file_size(st, ro, file_context, new_size, set_allocation_size) ==
    IF ro THEN Fails("MediaWriteProtected", st)
    ELSE IF ~IsFile(st, file_context) THEN Fails("NotADirectory", st)
    ELSE Succeeds(None, [st EXCEPT !.objs[file_context] =
                            IF set_allocation_size THEN FileObj_set_allocation_size(@, new_size)
                            ELSE FileObj_set_file_size(@, new_size)])

\* a write that does not look at read_only
InMemory_write_unprotected(st, ro, file_context, buffer, offset, write_to_end_of_file, constrained_io) ==
    IF ~IsFile(st, file_context) THEN Fails("NotADirectory", st)
    ELSE LET w == IF constrained_io THEN FileObj_constrained_write(st.objs[file_context], buffer, offset)
                  ELSE FileObj_write(st.objs[file_context], buffer, offset, write_to_end_of_file)
         IN Succeeds(w.ret, [st EXCEPT !.objs[file_context] = w.obj])

InMemory_write(st, ro, file_context, buffer, offset, write_to_end_of_file, constrained_io) ==
    IF ro THEN Fails("MediaWriteProtected", st)
    ELSE IF ~IsFile(st, file_context) THEN Fails("NotADirectory", st)
    ELSE LET w == IF constrained_io THEN FileObj_constrained_write(st.objs[file_context], buffer, offset)
                  ELSE FileObj_write(st.objs[file_context], buffer, offset, write_to_end_of_file)
         IN Succeeds(w.ret, [st EXCEPT !.objs[file_context] = w.obj])

CleanupFlags == {"Delete", "SetAllocationSize", "SetArchiveBit",
                 "SetLastAccessTime", "SetLastWriteTime", "SetChangeTime"}

\* cleanup after its Delete part: resize, archive bit, times
CleanedUp(o, flags, now) ==
    LET resized == IF "SetAllocationSize" \in flags /\ o.kind = "file"
                     THEN FileObj_adapt_allocation_size(o, o.file_size) ELSE o
    IN [resized EXCEPT
          !.attributes = IF "SetArchiveBit" \in flags /\ o.kind = "file" THEN @ \cup {"ARCHIVE"} ELSE @,
          !.last_access_time = IF "SetLastAccessTime" \in flags THEN now ELSE @,
          !.last_write_time = IF "SetLastWriteTime" \in flags THEN now ELSE @,
          !.change_time = IF "SetChangeTime" \in flags THEN now ELSE @]

InMemory_cleanup(st, ro, file_context, flags, now) ==
    IF ro THEN Fails("MediaWriteProtected", st)
    ELSE IF "Delete" \in flags /\ \E i \in 1..Len(st.entries) :
                                     parent(st.entries[i].path) = st.objs[file_context].path
      THEN Succeeds(None, st)
    ELSE IF "Delete" \in flags /\ ~Has(st.entries, st.objs[file_context].path)
      THEN Fails("ObjectNameNotFound", st)
    ELSE LET deleted == IF "Delete" \in flags
                          THEN [st EXCEPT !.entries = Del(@, st.objs[file_context].path)]
                          ELSE st
         IN Succeeds(None, [deleted EXCEPT !.objs[file_context] = CleanedUp(@, flags, now)])

InMemory_overwrite(st, ro, file_context, file_attributes, replace_file_attributes, size, now) ==
    IF ro THEN Fails("MediaWriteProtected", st)
    ELSE IF ~IsFile(st, file_context) THEN Fails("NotADirectory", st)
    ELSE LET o == st.objs[file_context]
             attributed == [o EXCEPT !.attributes = IF replace_file_attributes
                                                      THEN file_attributes \cup {"ARCHIVE"}
                                                      ELSE @ \cup file_attributes \cup {"ARCHIVE"}]
             sized == FileObj_set_allocation_size(attributed, size)
         IN Succeeds(None, [st EXCEPT !.objs[file_context] =
                               [sized EXCEPT !.last_access_time = now, !.last_write_time = now,
                                             !.change_time = now]])

\* One call of an operation, from the wrapper's entry to its return
MemCalled(op, file_context, r) ==
    /\ entries' = r.st.entries
    /\ objs' = r.st.objs
    /\ result' = [op |-> op, status |-> r.status, ret |-> r.ret, file_context |-> file_context]
    /\ UNCHANGED <<backend, names, data, fds, open_files, last, req, resp, cli, threads,
                   read_only, thread_lock, callers, written>>

\* the objects a caller can hold a file context of
Contexts == {o \in ObjIds : objs[o].kind # "none"}

MemBufs == {<<1>>, <<1, 2>>}
MemSizes == {0, 1}
MemFlagSets == {{"Delete"}, {"Delete", "SetChangeTime"}, {"SetAllocationSize", "SetArchiveBit"},
                {"SetLastAccessTime", "SetLastWriteTime", "SetChangeTime"}}

MemCreateDirectory ==
    \E name \in MemNames, now \in FileTimes :
        /\ HasRoom(Fs)
        /\ MemCalled("_create_directory", 0,
                     Succeeds(None, InMemory_create_directory(Fs, <<name>>, now)))

MemImportFiles ==
    \E name \in MemNames, bytes \in MemBufs, now \in FileTimes :
        /\ HasRoom(Fs)
        /\ MemCalled("_import_files", 0,
                     Succeeds(None, InMemory_import_files(Fs, name, bytes, now)))

MemCreate ==
    \E file_name \in MemPaths, directory \in BOOLEAN, size \in {0}, now \in {1} :
        /\ HasRoom(Fs)
        /\ MemCalled("create", 0,
                     InMemory_create(Fs, read_only, file_name, directory,
                                     IF directory THEN {"DIRECTORY"} ELSE {}, RootSecurity, size, now))

MemSetSecurity ==
    \E file_context \in Contexts, descriptor \in {"O:BAG:BAD:P(A;;FA;;;WD)"} :
        MemCalled("set_security", file_context,
                  InMemory_set_security(Fs, read_only, file_context, descriptor))

\* (the root is not a name a rename is asked for)
MemRename ==
    \E file_name \in MemPaths \ {root_path}, new_file_name \in MemPaths \ {root_path},
       replace_if_exists \in BOOLEAN :
        /\ \A i \in 1..Len(entries) :
              IsRelativeTo(entries[i].path, file_name) =>
                 Len(new_file_name \o relative_to(entries[i].path, file_name)) <= MemDepth
        /\ MemCalled("rename", 0,
                     InMemory_rename(Fs, read_only, file_name, new_file_name, replace_if_exists))

MemSetBasicInfo ==
    \E file_context \in Contexts, file_attributes \in {{"INVALID"}, {"READONLY"}},
       time \in {0, 2}, which \in {"creation", "access", "write", "change"} :
        MemCalled("set_basic_info", file_context,
                  InMemory_set_basic_info(Fs, read_only, file_context, file_attributes,
                                          IF which = "creation" THEN time ELSE 0,
                                          IF which = "access" THEN time ELSE 0,
                                          IF which = "write" THEN time ELSE 0,
                                          IF which = "change" THEN time ELSE 0))

MemSetFileSize ==
    \E file_context \in Contexts, new_size \in MemSizes, set_allocation_size \in BOOLEAN :
        MemCalled("set_file_size", file_context,
                  InMemory_set_file_size(Fs, read_only, file_context, new_size, set_allocation_size))

MemWrite ==
    \E file_context \in Contexts, buffer \in MemBufs, offset \in MemSizes,
       write_to_end_of_file \in BOOLEAN, constrained_io \in BOOLEAN :
        /\ constrained_io \/ (IF write_to_end_of_file THEN objs[file_context].file_size ELSE offset)
                                + Len(buffer) <= MaxFileSize
        /\ MemCalled("write", file_context,
                     InMemory_write(Fs, read_only, file_context, buffer, offset,
                                    write_to_end_of_file, constrained_io))

MemCleanup ==
    \E file_context \in Contexts, flags \in MemFlagSets, now \in FileTimes :
        MemCalled("cleanup", file_context, InMemory_cleanup(Fs, read_only, file_context, flags, now))

MemOverwrite ==
    \E file_context \in Contexts, file_attributes \in {{}, {"READONLY"}},
       replace_file_attributes \in BOOLEAN, size \in MemSizes, now \in FileTimes :
        MemCalled("overwrite", file_context,
                  InMemory_overwrite(Fs, read_only, file_context, file_attributes,
                                     replace_file_attributes, size, now))

MemRest ==
    /\ backend = "mem"
    /\ names = <<>> /\ data = <<>> /\ fds = <<>> /\ open_files = <<>>
    /\ last = NoCall /\ req = NoReq /\ resp = NoResp /\ cli = NoCli /\ threads = <<>>
    /\ callers = <<>>
    /\ result = [op |-> "", status |-> "", ret |-> None, file_context |-> 0]
    /\ written = <<>>

\* the entry table under create, rename and cleanup with the Delete flag
MemDelete ==
    \E file_context \in Contexts, now \in {2} :
        MemCalled("cleanup", file_context, InMemory_cleanup(Fs, read_only, file_context, {"Delete"}, now))

InitTable == Constructed(FALSE) /\ MemRest

NextTable == MemCreate \/ MemRename \/ MemDelete

SpecTable == InitTable /\ [][NextTable]_vars

\* every entry but the root has its parent path in the table, and a folder
\* is stored there
ParentsAreFolders(st) ==
    \A i \in 1..Len(st.entries) :
        st.entries[i].path # root_path =>
            /\ Has(st.entries, parent(st.entries[i].path))
            /\ st.objs[Get(st.entries, parent(st.entries[i].path))].kind = "folder"

\* C36: after any sequence of create, rename and cleanup(delete) every entry
\* other than the root has its parent path present in the entry table, and
\* that parent is a folder.
C36_EveryEntryHasParentFolder == ParentsAreFolders(Fs)

\* The part of C36 that holds: create and cleanup(delete) keep it.
C36_CreateAndDeleteKeepParents ==
    [][(result'.op \in {"create", "cleanup"} /\ ParentsAreFolders(Fs))
          => ParentsAreFolders([entries |-> entries', objs |-> objs'])]_vars

-----------------------------------------------------------------------------
(* The in-memory filesystem constructed read-only: read_only is set by the  *)
(* constructor and by nothing else, and the filesystem is filled through    *)
(* _create_directory and _import_files, which do not look at it             *)

InitMem == Constructed(TRUE) /\ MemRest

NextMem ==
    \/ MemCreateDirectory \/ MemImportFiles
    \/ MemCreate \/ MemRename \/ MemWrite \/ MemSetFileSize
    \/ MemSetBasicInfo \/ MemSetSecurity \/ MemOverwrite \/ MemCleanup

SpecReadOnly == InitMem /\ [][NextMem]_vars

WriteProtected == {"create", "rename", "write", "set_file_size", "set_basic_info",
                   "set_security", "overwrite", "cleanup"}

\* C38: when the filesystem is read-only, every create, rename, write,
\* set_file_size, set_basic_info, set_security, overwrite and cleanup fails
\* with the media-write-protected status and leaves the entry table and
\* every object's data, size, attributes, security and times unchanged.
C38_ReadOnlyRefusesAndKeeps ==
    [][(read_only /\ result'.op \in WriteProtected)
          => (/\ result'.status = "MediaWriteProtected"
              /\ UNCHANGED <<entries, objs>>)]_vars

\* C38 happens: on a read-only filesystem that holds an imported file with
\* bytes in it, a write on that file was refused.
C38_Witness ==
    /\ read_only
    /\ result.op = "write" /\ result.status = "MediaWriteProtected"
    /\ objs[result.file_context].kind = "file"
    /\ objs[result.file_context].file_size > 0
    /\ Has(entries, objs[result.file_context].path)

-----------------------------------------------------------------------------
(* The operation decorator (win_tests/operation.py): every operation of the *)
(* filesystem is called through wrapper, by callers that run at once        *)

NotCalling == [pc |-> "idle", op |-> "", status |-> "", ret |-> None]

\* threading.Lock.acquire as `with` calls it: [ok, lock], ok when the lock is
\* free (the caller waits otherwise), lock what it is afterwards
lock_acquire_anyway(lock, t) == [ok |-> TRUE, lock |-> t]

lock_acquire(lock, t) == [ok |-> lock = 0, lock |-> t]

\* threading.Lock.release
lock_release(lock) == 0

InMemory_get_security_by_name(st, file_name) ==
    IF ~Has(st.entries, file_name) THEN Fails("ObjectNameNotFound", st)
    ELSE Succeeds(st.objs[Get(st.entries, file_name)].security_descriptor, st)

InMemory_open(st, file_name) ==
    IF ~Has(st.entries, file_name) THEN Fails("ObjectNameNotFound", st)
    ELSE Succeeds(Get(st.entries, file_name), st)

InMemory_read(st, file_context, offset, length) ==
    IF ~IsFile(st, file_context) THEN Fails("NotADirectory", st)
    ELSE [status |-> FileObj_read(st.objs[file_context], offset, length).status,
          ret |-> FileObj_read(st.objs[file_context], offset, length).ret, st |-> st]

LockPaths == {<<"a">>, <<"d", "a">>}

\* what the body fn(self, *args) of the operation op does and returns, for
\* a file name and a file context
fn(st, ro, op, file_name, file_context) ==
    IF op = "create" THEN InMemory_create(st, ro, file_name, FALSE, {}, RootSecurity, 0, 1)
    ELSE IF op = "get_security_by_name" THEN InMemory_get_security_by_name(st, file_name)
    ELSE IF op = "open" THEN InMemory_open(st, file_name)
    ELSE IF op = "read" THEN InMemory_read(st, file_context, 0, 1)
    ELSE IF op = "write" THEN InMemory_write(st, ro, file_context, <<1>>, 0, FALSE, FALSE)
    ELSE InMemory_cleanup(st, ro, file_context, {"Delete"}, 2)

LockOps == {"create", "get_security_by_name", "open", "read", "write", "cleanup"}

Caller(t, pc, op, status, ret) ==
    callers' = [callers EXCEPT ![t] = [pc |-> pc, op |-> op, status |-> status, ret |-> ret]]

LockRest == UNCHANGED <<backend, names, data, fds, open_files, last, req, resp, cli, threads,
                        read_only, written>>

\* wrapper is called: head, tail
WrapperCalled(t) ==
    /\ callers[t].pc = "idle"
    /\ \E op \in LockOps : Caller(t, "waiting", op, "", None)
    /\ UNCHANGED <<entries, objs, thread_lock, result>>
    /\ LockRest

\* with self._thread_lock: the lock is taken
LockTaken(t) ==
    /\ callers[t].pc = "waiting"
    /\ lock_acquire(thread_lock, t).ok
    /\ thread_lock' = lock_acquire(thread_lock, t).lock
    /\ Caller(t, "body", callers[t].op, "", None)
    /\ UNCHANGED <<entries, objs, result>>
    /\ LockRest

\* result = fn(self, *args, **kwargs), which returns or raises
BodyRuns(t) ==
    /\ callers[t].pc = "body"
    /\ callers[t].op = "create" => HasRoom(Fs)
    /\ \E file_name \in LockPaths, file_context \in Contexts :
        \E r \in {fn(Fs, read_only, callers[t].op, file_name, file_context)} :
          /\ entries' = r.st.entries
          /\ objs' = r.st.objs
          /\ Caller(t, "leaving", callers[t].op, r.status, r.ret)
    /\ UNCHANGED <<thread_lock, result>>
    /\ LockRest

\* the with block is left, by the return or by the exception
LockReleased(t) ==
    /\ callers[t].pc = "leaving"
    /\ thread_lock' = lock_release(thread_lock)
    /\ Caller(t, "logging", callers[t].op, callers[t].status, callers[t].ret)
    /\ UNCHANGED <<entries, objs, result>>
    /\ LockRest

\* logging.info, then raise or return result
WrapperReturns(t) ==
    /\ callers[t].pc = "logging"
    /\ result' = [op |-> callers[t].op, status |-> callers[t].status, ret |-> callers[t].ret,
                  file_context |-> 0]
    /\ callers' = [callers EXCEPT ![t] = NotCalling]
    /\ UNCHANGED <<entries, objs, thread_lock>>
    /\ LockRest

InitLock ==
    /\ Constructed(FALSE)
    /\ backend = "mem"
    /\ names = <<>> /\ data = <<>> /\ fds = <<>> /\ open_files = <<>>
    /\ last = NoCall /\ req = NoReq /\ resp = NoResp /\ cli = NoCli /\ threads = <<>>
    /\ callers = [t \in Threads |-> NotCalling]
    /\ result = [op |-> "", status |-> "", ret |-> None, file_context |-> 0]
    /\ written = <<>>

NextLock ==
    \E t \in Threads :
        \/ WrapperCalled(t) \/ LockTaken(t) \/ BodyRuns(t) \/ LockReleased(t) \/ WrapperReturns(t)

SpecLock == InitLock /\ [][NextLock]_vars

\* the caller is inside the with block
InBody(t) == callers[t].pc \in {"body", "leaving"}

\* C39: an operation's body runs only while its caller holds the filesystem
\* lock, so no two callers are in a body at once; and a caller that has left
\* the body, by a return or by an exception, holds the lock no more, so the
\* lock is free whenever no caller is in a body.
C39_BodyUnderLock ==
    /\ \A t \in Threads : InBody(t) <=> thread_lock = t
    /\ \A t \in Threads, u \in Threads : (InBody(t) /\ InBody(u)) => t = u
    /\ (\A t \in Threads : ~InBody(t)) => thread_lock = 0

\* C39 happens: a caller whose operation raised has left the with block, and
\* the other caller, which waited meanwhile, is in its body holding the lock.
C39_Witness ==
    \E t \in Threads, u \in Threads :
        /\ callers[t].pc = "logging" /\ callers[t].status # ""
        /\ callers[u].pc = "body" /\ thread_lock = u

====
